---- MODULE Spec2Model ----
(***************************************************************************)
(* Round-robin assignment pointer with undo.                               *)
(*                                                                         *)
(* The repository holds several builds of one React component (App).  All  *)
(* of them keep a roster (candidates) and a cursor, hand out the next      *)
(* `count` names of the roster in circular order and store the cursor in a *)
(* remote row store shared by every client.  The builds modelled here:     *)
(*                                                                         *)
(*   "state"  src/unnamed/part_002     handleAssign / handleUndo /         *)
(*            resetRequest on table assignment_state, realtime UPDATEs     *)
(*   "plain"  src/App.tsx:7..327       handleAssign / resetResultView on   *)
(*            table assignment_state, realtime UPDATEs, no undo            *)
(*   "plain0" src/unnamed/part_001:1156..1418  as "plain", with an empty   *)
(*            roster accepted by fetchData and the form hidden by an error *)
(*   "cloud"  src/App.tsx:374..715     handleSelect / handleUndo /         *)
(*            handleExcelUpload on table app_state, realtime, local cache  *)
(*   "cloud0" src/unnamed/part_001:44..453  as "cloud", without realtime   *)
(*   "local"  src/unnamed/part_001:474..826  handleSelect / handleUndo /   *)
(*            handleFileChange on localStorage only, one client            *)
(*                                                                         *)
(* The file part_001 holds one more copy of the component, at lines        *)
(* 845..1148 (the handlers of "state" with the count kept as text); it is  *)
(* not modelled.                                                           *)
(*                                                                         *)
(* Every client of one behaviour runs the same build (variable variant).   *)
(* A handler that awaits a remote call is two steps: the synchronous part  *)
(* up to the await together with the server executing the call, and the    *)
(* continuation that runs when the response arrives (suffix _await).  A    *)
(* continuation that awaits again sends its call in the same way and has   *)
(* a continuation of its own; the two selects of a Promise.all are         *)
(* answered one by one.  Realtime notifications travel in a FIFO inbox     *)
(* per client, one per changed row.  A roster is the sequence of the name  *)
(* fields of its rows.                                                     *)
(* A button that is disabled or not rendered is the guard of its action;   *)
(* the early return of a handler is a branch that changes nothing.  A      *)
(* file input is two steps as well: the change handler, which starts the   *)
(* FileReader, and reader.onload.                                          *)
(* Calls of one client that are alike are kept apart by a number (field    *)
(* n); the responses of alike calls are taken highest number first, which  *)
(* loses no state, since alike calls differ in nothing else.               *)
(*                                                                         *)
(* Specifications:                                                         *)
(*   Spec        every build with all its handlers: "state", "plain" and   *)
(*               "plain0" with two clients, "cloud" and "cloud0" with      *)
(*               roster imports and one open client, "local"               *)
(*   SpecState   "state", two clients                                      *)
(*   SpecPlain   "plain" and "plain0", two clients                         *)
(*   SpecCloud   "cloud" and "cloud0" with two clients, without roster     *)
(*               imports                                                   *)
(*   SpecImport  "cloud" and "cloud0" with roster imports, one open        *)
(*               client, MaxImportOps assigns or refreshes                 *)
(*   SpecInput   "cloud", "cloud0" and "local" with the count input typed  *)
(*               into, one client                                          *)
(*   SpecRestart "cloud", "cloud0" and "local" with page reloads of one    *)
(*               client                                                    *)
(*   SpecLocal   "local", its one client                                   *)
(*   SpecLive    "state", "plain", "plain0", "cloud" and "cloud0" with one *)
(*               client whose connection may stall; the continuation of a  *)
(*               write runs while it has not                               *)
(*   SpecWalk    "state", "plain" and "cloud" with one client, rosters of  *)
(*               length 1..3 and the assign handlers at counts up to       *)
(*               MaxWalk                                                   *)
(***************************************************************************)
EXTENDS Integers, Sequences, FiniteSets, TLC

\* ------------------------------------------------------------------ bounds
Clients == {"c1", "c2"}
MaxCount == 2      \* largest count a user enters
MaxOps == 3        \* user gestures that reach the server, per behaviour
MaxFail == 1       \* remote calls that fail, per behaviour
MaxUploads == 1    \* roster imports, per behaviour
MaxImportOps == 1  \* assigns and refreshes in a behaviour with roster imports
MaxStored == 2     \* largest cursor the administrator left in assignment_state
MaxWalk == 7       \* largest count of a walk computed on its own

InitRosters == {<< >>, <<"A", "B">>}
WalkRosters == {<<"A">>, <<"A", "B">>, <<"A", "B", "C">>}

\* ---------------------------------------------------- nullable values (JS)
Null == << >>
Some(x) == <<x>>
Val(x) == x[1]
NoError == ""

VARIABLES
  variant,        \* which build every client runs
  dbCandidates,   \* table candidates, in roster order
  dbIndex,        \* the cursor row: Some(current_index), or Null when no row
  mounted,        \* mounted[c]: the component's mount effect has run
  candidates,     \* useState<Candidate[]>([])
  config,         \* useState<AssignmentConfig | null>(null)   ("state", "plain", "plain0")
  result,         \* useState<AssignmentResult | null>(null)   ("state", "plain", "plain0")
  assigning,      \* useState(false)                           ("state", "plain", "plain0")
  currentIndex,   \* useState<number>(0)                       ("cloud", "cloud0")
  historyIndex,   \* useState<number | null>(null)             ("cloud", "cloud0")
  selectedResults,\* useState<string[]>([])                    ("cloud", "cloud0")
  syncing,        \* useState(false)                           ("cloud", "cloud0")
  cache,          \* localStorage[LOCAL_BACKUP_KEY]            ("cloud", "cloud0")
  loading,        \* useState(true)
  error,          \* useState<string | null>(null), by kind of message
  inbox,          \* realtime payloads on their way to the client
  calls,          \* remote calls whose response the client still awaits
  ops,            \* gestures so far (bounded by MaxOps)
  fails,          \* failed remote calls so far (bounded by MaxFail)
  uploads,        \* roster imports so far (bounded by MaxUploads)
  selectionCount, \* useState<number>(1)               ("cloud", "cloud0", "local")
  typed,          \* e.target.value of the last change event of the count input
  silent          \* silent[c]: the responses to client c's requests have stopped

dbVars == <<dbCandidates, dbIndex>>
stateVars == <<config, result, assigning>>
cloudVars == <<currentIndex, historyIndex, selectedResults, syncing, cache>>
inputVars == <<selectionCount, typed>>
constVars == <<variant, uploads, inputVars, silent>>
vars == <<variant, dbCandidates, dbIndex, mounted, candidates, config, result,
          assigning, currentIndex, historyIndex, selectedResults, syncing, cache,
          loading, error, inbox, calls, ops, fails, uploads, selectionCount, typed,
          silent>>

\* A remote call either succeeds or fails (network, permissions); failures are
\* budgeted.
Outcomes == IF fails < MaxFail THEN {TRUE, FALSE} ELSE {TRUE}
Spend(ok) == fails' = IF ok THEN fails ELSE fails + 1

\* postgres_changes UPDATE on the cursor table: every subscribed client gets the
\* new row.
NotifyIndex(v) ==
  [d \in Clients |->
     IF mounted[d] /\ variant # "cloud0"
     THEN Append(inbox[d], [table |-> "state", current_index |-> v])
     ELSE inbox[d]]

\* ======================================================================
\* Build "state": src/unnamed/part_002
\* ======================================================================

\* Variation of assignedNamesFrom: the walk starts one position late.
assignedNamesFrom_late(roster, startIndex, count) ==
  [i \in 1..count |-> roster[((startIndex + i) % Len(roster)) + 1]]

\* part_002:84-94, the closed-form walk.
assignedNamesFrom(roster, startIndex, count) ==
  [i \in 1..count |-> roster[((startIndex + (i - 1)) % Len(roster)) + 1]]

computeAssign_state(roster, current_index, count) ==
  LET total == Len(roster)
      previousIndex == current_index
      startIndex == previousIndex % total
  IN [assignedNames |-> assignedNamesFrom(roster, startIndex, count),
      startIndex |-> startIndex,
      endIndex |-> (startIndex + count) % total,
      previousIndex |-> previousIndex]

\* part_002:25-33: fetchData up to the response of the select of candidates.
fetchData_state(c) ==
  /\ loading' = [loading EXCEPT ![c] = TRUE]
  /\ error' = [error EXCEPT ![c] = NoError]
  /\ \E ok \in Outcomes :
       /\ Spend(ok)
       /\ calls' = [calls EXCEPT ![c] = @ \cup
            {[op |-> "fetch", stage |-> "candidates", ok |-> ok,
              data |-> dbCandidates]}]
  /\ UNCHANGED <<constVars, cloudVars, dbVars, candidates, stateVars, inbox>>

\* part_002:54-75, the mount effect: first fetch and subscription.
mount_state(c) ==
  /\ variant = "state"
  /\ ~mounted[c]
  /\ mounted' = [mounted EXCEPT ![c] = TRUE]
  /\ fetchData_state(c)
  /\ UNCHANGED ops

\* part_002:177-182, the refresh button.
refresh_state(c) ==
  /\ variant = "state"
  /\ mounted[c] /\ ~loading[c]
  /\ ops < MaxOps
  /\ ops' = ops + 1
  /\ fetchData_state(c)
  /\ UNCHANGED mounted

\* part_002:35-41 and 46-51: the roster has arrived; it is set and the select
\* of the cursor row is sent, which fails when there is not exactly one row.
\* A failed select of candidates ends the fetch with the error.
fetchData_state_await(c) ==
  /\ variant = "state"
  /\ \E call \in calls[c] :
       /\ call.op = "fetch" /\ call.stage = "candidates"
       /\ IF call.ok
          THEN /\ candidates' = [candidates EXCEPT ![c] = call.data]
               /\ \E ok \in Outcomes :
                    /\ Spend(ok)
                    /\ calls' = [calls EXCEPT ![c] = (@ \ {call}) \cup
                         {[op |-> "fetch", stage |-> "config",
                           ok |-> ok /\ dbIndex # Null,
                           current_index |-> IF dbIndex = Null THEN 0
                                             ELSE Val(dbIndex)]}]
               /\ UNCHANGED <<error, loading>>
          ELSE /\ calls' = [calls EXCEPT ![c] = @ \ {call}]
               /\ error' = [error EXCEPT ![c] = "fetch"]
               /\ loading' = [loading EXCEPT ![c] = FALSE]
               /\ UNCHANGED <<candidates, fails>>
  /\ UNCHANGED <<constVars, cloudVars, dbVars, mounted, stateVars, inbox, ops>>

\* part_002:43-51: the cursor row has arrived and ends the fetch.
fetchData_state_config_await(c) ==
  /\ variant = "state"
  /\ \E call \in calls[c] :
       /\ call.op = "fetch" /\ call.stage = "config"
       /\ calls' = [calls EXCEPT ![c] = @ \ {call}]
       /\ config' = [config EXCEPT ![c] =
                       IF call.ok THEN Some(call.current_index) ELSE @]
       /\ error' = [error EXCEPT ![c] = IF call.ok THEN @ ELSE "fetch"]
       /\ loading' = [loading EXCEPT ![c] = FALSE]
  /\ UNCHANGED <<constVars, cloudVars, dbVars, mounted, candidates, result, assigning,
                 inbox, ops, fails>>

\* part_002:57-70, the realtime handler.
onUpdate_state(c) ==
  /\ variant = "state"
  /\ inbox[c] # << >>
  /\ config' = [config EXCEPT ![c] = Some(Head(inbox[c]).current_index)]
  /\ inbox' = [inbox EXCEPT ![c] = Tail(@)]
  /\ UNCHANGED <<constVars, cloudVars, dbVars, mounted, candidates, result, assigning, loading,
                 error, calls, ops, fails>>

\* Variation of handleAssign_state: an empty roster is not refused, and the
\* cursor is written back as it is.
handleAssign_state_noEmptyCheck(c, count) ==
  IF config[c] = Null \/ count <= 0
  THEN UNCHANGED <<constVars, cloudVars, dbVars, mounted, candidates, stateVars, loading,
                      error, inbox, calls, ops, fails>>
  ELSE /\ ops < MaxOps
       /\ ops' = ops + 1
       /\ assigning' = [assigning EXCEPT ![c] = TRUE]
       /\ error' = [error EXCEPT ![c] = NoError]
       /\ LET r == IF Len(candidates[c]) = 0
                   THEN [assignedNames |-> << >>, startIndex |-> Val(config[c]),
                         endIndex |-> Val(config[c]), previousIndex |-> Val(config[c])]
                   ELSE computeAssign_state(candidates[c], Val(config[c]), count)
          IN \E ok \in Outcomes :
               /\ Spend(ok)
               /\ dbIndex' = IF ok THEN Some(r.endIndex) ELSE dbIndex
               /\ inbox' = IF ok THEN NotifyIndex(r.endIndex) ELSE inbox
               /\ calls' = [calls EXCEPT ![c] = @ \cup
                    {[op |-> "assign", ok |-> ok, count |-> count, r |-> r]}]
       /\ UNCHANGED <<constVars, cloudVars, dbCandidates, mounted, candidates, config, result,
                      loading>>

\* Variation of handleAssign_state: the write advances the stored cursor by
\* count instead of storing the end of the walk computed from the local copy.
handleAssign_state_advance(c, count) ==
  IF config[c] = Null \/ Len(candidates[c]) = 0 \/ count <= 0
  THEN UNCHANGED <<constVars, cloudVars, dbVars, mounted, candidates, stateVars, loading,
                      error, inbox, calls, ops, fails>>
  ELSE /\ ops < MaxOps
       /\ ops' = ops + 1
       /\ assigning' = [assigning EXCEPT ![c] = TRUE]
       /\ error' = [error EXCEPT ![c] = NoError]
       /\ LET r == computeAssign_state(candidates[c], Val(config[c]), count)
              stored == (Val(dbIndex) + count) % Len(candidates[c])
          IN \E ok \in Outcomes :
               /\ Spend(ok)
               /\ dbIndex' = IF ok THEN Some(stored) ELSE dbIndex
               /\ inbox' = IF ok THEN NotifyIndex(stored) ELSE inbox
               /\ calls' = [calls EXCEPT ![c] = @ \cup
                    {[op |-> "assign", ok |-> ok, count |-> count, r |-> r]}]
       /\ UNCHANGED <<constVars, cloudVars, dbCandidates, mounted, candidates, config, result,
                      loading>>

\* part_002:77-101: the handler up to the response of the update.
handleAssign_state(c, count) ==
  IF config[c] = Null \/ Len(candidates[c]) = 0 \/ count <= 0
  THEN UNCHANGED <<constVars, cloudVars, dbVars, mounted, candidates, stateVars, loading,
                      error, inbox, calls, ops, fails>>
  ELSE /\ ops < MaxOps
       /\ ops' = ops + 1
       /\ assigning' = [assigning EXCEPT ![c] = TRUE]
       /\ error' = [error EXCEPT ![c] = NoError]
       /\ LET r == computeAssign_state(candidates[c], Val(config[c]), count)
          IN \E ok \in Outcomes :
               /\ Spend(ok)
               /\ dbIndex' = IF ok THEN Some(r.endIndex) ELSE dbIndex
               /\ inbox' = IF ok THEN NotifyIndex(r.endIndex) ELSE inbox
               /\ calls' = [calls EXCEPT ![c] = @ \cup
                    {[op |-> "assign", ok |-> ok, count |-> count, r |-> r]}]
       /\ UNCHANGED <<constVars, cloudVars, dbCandidates, mounted, candidates, config, result,
                      loading>>

\* part_002:222-229: the assign button.
assignEnabled_state(c) ==
  mounted[c] /\ ~loading[c] /\ ~assigning[c] /\ error[c] = NoError /\ result[c] = Null

\* part_002:213: the count input keeps count >= 1.
clickAssign_state(c) ==
  /\ variant = "state"
  /\ assignEnabled_state(c)
  /\ \E count \in 1..MaxCount : handleAssign_state(c, count)

\* part_002:101-116: the continuation of handleAssign.
handleAssign_state_await(c) ==
  /\ variant = "state"
  /\ \E call \in calls[c] :
       /\ call.op = "assign"
       /\ calls' = [calls EXCEPT ![c] = @ \ {call}]
       /\ config' = [config EXCEPT ![c] =
                       IF call.ok /\ @ # Null THEN Some(call.r.endIndex) ELSE @]
       /\ result' = [result EXCEPT ![c] = IF call.ok THEN Some(call.r) ELSE @]
       /\ error' = [error EXCEPT ![c] = IF call.ok THEN @ ELSE "assign"]
       /\ assigning' = [assigning EXCEPT ![c] = FALSE]
  /\ UNCHANGED <<constVars, cloudVars, dbVars, mounted, candidates, loading, inbox, ops, fails>>

\* Variation of handleUndo_state: the undo writes the end of the walk.
handleUndo_state_end(c) ==
  IF result[c] = Null \/ config[c] = Null
  THEN UNCHANGED <<constVars, cloudVars, dbVars, mounted, candidates, stateVars, loading,
                      error, inbox, calls, ops, fails>>
  ELSE /\ ops < MaxOps
       /\ ops' = ops + 1
       /\ assigning' = [assigning EXCEPT ![c] = TRUE]
       /\ LET target == Val(result[c]).endIndex
          IN \E ok \in Outcomes :
               /\ Spend(ok)
               /\ dbIndex' = IF ok THEN Some(target) ELSE dbIndex
               /\ inbox' = IF ok THEN NotifyIndex(target) ELSE inbox
               /\ calls' = [calls EXCEPT ![c] = @ \cup
                    {[op |-> "undo", ok |-> ok, target |-> target]}]
       /\ UNCHANGED <<constVars, cloudVars, dbCandidates, mounted, candidates, config, result,
                      loading, error>>

\* part_002:119-129: the handler up to the response of the update.
handleUndo_state(c) ==
  IF result[c] = Null \/ config[c] = Null
  THEN UNCHANGED <<constVars, cloudVars, dbVars, mounted, candidates, stateVars, loading,
                      error, inbox, calls, ops, fails>>
  ELSE /\ ops < MaxOps
       /\ ops' = ops + 1
       /\ assigning' = [assigning EXCEPT ![c] = TRUE]
       /\ LET target == Val(result[c]).previousIndex
          IN \E ok \in Outcomes :
               /\ Spend(ok)
               /\ dbIndex' = IF ok THEN Some(target) ELSE dbIndex
               /\ inbox' = IF ok THEN NotifyIndex(target) ELSE inbox
               /\ calls' = [calls EXCEPT ![c] = @ \cup
                    {[op |-> "undo", ok |-> ok, target |-> target]}]
       /\ UNCHANGED <<constVars, cloudVars, dbCandidates, mounted, candidates, config, result,
                      loading, error>>

\* part_002:262-264: the undo button is disabled while a call is outstanding.
clickUndo_state(c) ==
  /\ variant = "state"
  /\ mounted[c] /\ ~loading[c] /\ ~assigning[c]
  /\ handleUndo_state(c)

\* part_002:129-139: the continuation of handleUndo.
handleUndo_state_await(c) ==
  /\ variant = "state"
  /\ \E call \in calls[c] :
       /\ call.op = "undo"
       /\ calls' = [calls EXCEPT ![c] = @ \ {call}]
       /\ config' = [config EXCEPT ![c] =
                       IF call.ok /\ @ # Null THEN Some(call.target) ELSE @]
       /\ result' = [result EXCEPT ![c] = IF call.ok THEN Null ELSE @]
       /\ error' = [error EXCEPT ![c] = IF call.ok THEN @ ELSE "undo"]
       /\ assigning' = [assigning EXCEPT ![c] = FALSE]
  /\ UNCHANGED <<constVars, cloudVars, dbVars, mounted, candidates, loading, inbox, ops, fails>>

\* Variation of resetRequest: acknowledging also stores the cursor the
\* acknowledged assignment started from.
resetRequest_stores(c) ==
  /\ variant = "state"
  /\ mounted[c] /\ ~loading[c] /\ result[c] # Null
  /\ result' = [result EXCEPT ![c] = Null]
  /\ dbIndex' = Some(Val(result[c]).startIndex)
  /\ UNCHANGED <<constVars, cloudVars, dbCandidates, mounted, candidates, config, assigning,
                 loading, error, inbox, calls, ops, fails>>

\* Variation of resetRequest: acknowledging puts the local cursor back to the
\* one the acknowledged assignment started from.
resetRequest_rewinds(c) ==
  /\ variant = "state"
  /\ mounted[c] /\ ~loading[c] /\ result[c] # Null
  /\ result' = [result EXCEPT ![c] = Null]
  /\ config' = [config EXCEPT ![c] = Some(Val(result[c]).startIndex)]
  /\ UNCHANGED <<constVars, cloudVars, dbVars, mounted, candidates, assigning, loading,
                 error, inbox, calls, ops, fails>>

\* part_002:142-145 and 270-275: acknowledge, offered while a result is shown.
resetRequest(c) ==
  /\ variant = "state"
  /\ mounted[c] /\ ~loading[c] /\ result[c] # Null
  /\ result' = [result EXCEPT ![c] = Null]
  /\ UNCHANGED <<constVars, cloudVars, dbVars, mounted, candidates, config, assigning, loading,
                 error, inbox, calls, ops, fails>>

\* ======================================================================
\* Build "plain": src/App.tsx:7-327 (no undo, the cursor is not reduced, and
\* the local config is left to the realtime notification)
\* ======================================================================

\* App.tsx:76-85.
computeAssign_plain(roster, current_index, count) ==
  LET startIndex == current_index
      total == Len(roster)
  IN [assignedNames |-> assignedNamesFrom(roster, startIndex, count),
      startIndex |-> startIndex,
      endIndex |-> (startIndex + count) % total,
      previousIndex |-> startIndex]

\* App.tsx:18-26: fetchData up to the response of the select of candidates.
fetchData_plain(c) ==
  /\ loading' = [loading EXCEPT ![c] = TRUE]
  /\ error' = [error EXCEPT ![c] = NoError]
  /\ \E ok \in Outcomes :
       /\ Spend(ok)
       /\ calls' = [calls EXCEPT ![c] = @ \cup
            {[op |-> "fetch", stage |-> "candidates", ok |-> ok,
              data |-> dbCandidates]}]
  /\ UNCHANGED <<constVars, cloudVars, dbVars, candidates, stateVars, inbox>>

\* App.tsx:52-67, the mount effect.
mount_plain(c) ==
  /\ variant = "plain"
  /\ ~mounted[c]
  /\ mounted' = [mounted EXCEPT ![c] = TRUE]
  /\ fetchData_plain(c)
  /\ UNCHANGED ops

\* App.tsx:148-154, the refresh button.
refresh_plain(c) ==
  /\ variant = "plain"
  /\ mounted[c] /\ ~loading[c]
  /\ ops < MaxOps
  /\ ops' = ops + 1
  /\ fetchData_plain(c)
  /\ UNCHANGED mounted

\* App.tsx:28-39 and 43-48: the roster has arrived; an empty table is an
\* error of this build (30-32); otherwise the roster is set and the select of
\* the cursor row is sent, which fails when there is not exactly one row.
fetchData_plain_await(c) ==
  /\ variant = "plain"
  /\ \E call \in calls[c] :
       /\ call.op = "fetch" /\ call.stage = "candidates"
       /\ IF call.ok /\ Len(call.data) > 0
          THEN /\ candidates' = [candidates EXCEPT ![c] = call.data]
               /\ \E ok \in Outcomes :
                    /\ Spend(ok)
                    /\ calls' = [calls EXCEPT ![c] = (@ \ {call}) \cup
                         {[op |-> "fetch", stage |-> "config",
                           ok |-> ok /\ dbIndex # Null,
                           current_index |-> IF dbIndex = Null THEN 0
                                             ELSE Val(dbIndex)]}]
               /\ UNCHANGED <<error, loading>>
          ELSE /\ calls' = [calls EXCEPT ![c] = @ \ {call}]
               /\ error' = [error EXCEPT ![c] = "fetch"]
               /\ loading' = [loading EXCEPT ![c] = FALSE]
               /\ UNCHANGED <<candidates, fails>>
  /\ UNCHANGED <<constVars, cloudVars, dbVars, mounted, stateVars, inbox, ops>>

\* App.tsx:41-48: the cursor row has arrived and ends the fetch.
fetchData_plain_config_await(c) ==
  /\ variant = "plain"
  /\ \E call \in calls[c] :
       /\ call.op = "fetch" /\ call.stage = "config"
       /\ calls' = [calls EXCEPT ![c] = @ \ {call}]
       /\ config' = [config EXCEPT ![c] =
                       IF call.ok THEN Some(call.current_index) ELSE @]
       /\ error' = [error EXCEPT ![c] = IF call.ok THEN @ ELSE "fetch"]
       /\ loading' = [loading EXCEPT ![c] = FALSE]
  /\ UNCHANGED <<constVars, cloudVars, dbVars, mounted, candidates, result, assigning,
                 inbox, ops, fails>>

\* App.tsx:55-60, the realtime handler.
onUpdate_plain(c) ==
  /\ variant = "plain"
  /\ inbox[c] # << >>
  /\ config' = [config EXCEPT ![c] = Some(Head(inbox[c]).current_index)]
  /\ inbox' = [inbox EXCEPT ![c] = Tail(@)]
  /\ UNCHANGED <<constVars, cloudVars, dbVars, mounted, candidates, result, assigning, loading,
                 error, calls, ops, fails>>

\* App.tsx:69-92: the handler up to the response of the update.
handleAssign_plain(c, count) ==
  IF config[c] = Null \/ Len(candidates[c]) = 0 \/ count <= 0
  THEN UNCHANGED <<constVars, cloudVars, dbVars, mounted, candidates, stateVars, loading,
                      error, inbox, calls, ops, fails>>
  ELSE /\ ops < MaxOps
       /\ ops' = ops + 1
       /\ assigning' = [assigning EXCEPT ![c] = TRUE]
       /\ error' = [error EXCEPT ![c] = NoError]
       /\ LET r == computeAssign_plain(candidates[c], Val(config[c]), count)
          IN \E ok \in Outcomes :
               /\ Spend(ok)
               /\ dbIndex' = IF ok THEN Some(r.endIndex) ELSE dbIndex
               /\ inbox' = IF ok THEN NotifyIndex(r.endIndex) ELSE inbox
               /\ calls' = [calls EXCEPT ![c] = @ \cup
                    {[op |-> "assign", ok |-> ok, count |-> count, r |-> r]}]
       /\ UNCHANGED <<constVars, cloudVars, dbCandidates, mounted, candidates, config, result,
                      loading>>

\* App.tsx:180 and 211-214: the form is shown while no result is, and its
\* assign button is disabled while assigning, while an error is shown and
\* while count <= 0.
clickAssign_plain(c) ==
  /\ variant = "plain"
  /\ mounted[c] /\ ~loading[c] /\ result[c] = Null
  /\ ~assigning[c] /\ error[c] = NoError
  /\ \E count \in 1..MaxCount : handleAssign_plain(c, count)

\* App.tsx:92-104: the continuation of handleAssign.
handleAssign_plain_await(c) ==
  /\ variant = "plain"
  /\ \E call \in calls[c] :
       /\ call.op = "assign"
       /\ calls' = [calls EXCEPT ![c] = @ \ {call}]
       /\ result' = [result EXCEPT ![c] = IF call.ok THEN Some(call.r) ELSE @]
       /\ error' = [error EXCEPT ![c] = IF call.ok THEN @ ELSE "assign"]
       /\ assigning' = [assigning EXCEPT ![c] = FALSE]
  /\ UNCHANGED <<constVars, cloudVars, dbVars, mounted, candidates, config, loading, inbox,
                 ops, fails>>

\* App.tsx:107-111 and 205-210: the cancel button of the form.
handleCancelInput(c) ==
  /\ variant = "plain"
  /\ mounted[c] /\ ~loading[c] /\ result[c] = Null
  /\ error[c] # NoError
  /\ error' = [error EXCEPT ![c] = NoError]
  /\ UNCHANGED <<constVars, cloudVars, dbVars, mounted, candidates, stateVars, loading, inbox,
                 calls, ops, fails>>

\* App.tsx:113-116 and 241-246: acknowledge, offered while a result is shown.
resetResultView(c) ==
  /\ variant = "plain"
  /\ mounted[c] /\ ~loading[c] /\ result[c] # Null
  /\ result' = [result EXCEPT ![c] = Null]
  /\ UNCHANGED <<constVars, cloudVars, dbVars, mounted, candidates, config, assigning, loading,
                 error, inbox, calls, ops, fails>>

\* ======================================================================
\* Build "plain0": src/unnamed/part_001:1156-1418.  The handlers of "plain"
\* with these differences: fetchData accepts an empty table of candidates
\* and goes on to the cursor row (1186-1191), handleAssign leaves the error
\* as it is (1223), and the page shows either its error panel or the form
\* and the result, never both (1280 and 1334).  The count is an input of the
\* assign gesture: its input keeps it >= 0 (1350), the button of 1355 sets it
\* to 1, and the assign button is disabled at 0 (1356).
\* ======================================================================

\* part_001:1225-1231.
computeAssign_plain0(roster, current_index, count) ==
  LET startIndex == current_index
      total == Len(roster)
  IN [assignedNames |->
        [i \in 1..count |-> roster[((startIndex + (i - 1)) % total) + 1]],
      startIndex |-> startIndex,
      endIndex |-> (startIndex + count) % total,
      previousIndex |-> startIndex]

\* part_001:1167-1176: fetchData up to the response of the select of
\* candidates.
fetchData_plain0(c) ==
  /\ loading' = [loading EXCEPT ![c] = TRUE]
  /\ error' = [error EXCEPT ![c] = NoError]
  /\ \E ok \in Outcomes :
       /\ Spend(ok)
       /\ calls' = [calls EXCEPT ![c] = @ \cup
            {[op |-> "fetch", stage |-> "candidates", ok |-> ok,
              data |-> dbCandidates]}]
  /\ UNCHANGED <<constVars, cloudVars, dbVars, candidates, stateVars, inbox>>

\* part_001:1204-1219, the mount effect: first fetch and subscription.
mount_plain0(c) ==
  /\ variant = "plain0"
  /\ ~mounted[c]
  /\ mounted' = [mounted EXCEPT ![c] = TRUE]
  /\ fetchData_plain0(c)
  /\ UNCHANGED ops

\* part_001:1247 and 1275: the refresh button, on the page that replaces
\* the loading screen.
refresh_plain0(c) ==
  /\ variant = "plain0"
  /\ mounted[c] /\ ~loading[c]
  /\ ops < MaxOps
  /\ ops' = ops + 1
  /\ fetchData_plain0(c)
  /\ UNCHANGED mounted

\* part_001:1178-1191 and 1196-1201: the roster has arrived; it is set, empty
\* or not, and the select of the cursor row is sent, which fails when there
\* is not exactly one row.  A failed select of candidates ends the fetch with
\* the error.
fetchData_plain0_await(c) ==
  /\ variant = "plain0"
  /\ \E call \in calls[c] :
       /\ call.op = "fetch" /\ call.stage = "candidates"
       /\ IF call.ok
          THEN /\ candidates' = [candidates EXCEPT ![c] = call.data]
               /\ \E ok \in Outcomes :
                    /\ Spend(ok)
                    /\ calls' = [calls EXCEPT ![c] = (@ \ {call}) \cup
                         {[op |-> "fetch", stage |-> "config",
                           ok |-> ok /\ dbIndex # Null,
                           current_index |-> IF dbIndex = Null THEN 0
                                             ELSE Val(dbIndex)]}]
               /\ UNCHANGED <<error, loading>>
          ELSE /\ calls' = [calls EXCEPT ![c] = @ \ {call}]
               /\ error' = [error EXCEPT ![c] = "fetch"]
               /\ loading' = [loading EXCEPT ![c] = FALSE]
               /\ UNCHANGED <<candidates, fails>>
  /\ UNCHANGED <<constVars, cloudVars, dbVars, mounted, stateVars, inbox, ops>>

\* part_001:1193-1201: the cursor row has arrived and ends the fetch.
fetchData_plain0_config_await(c) ==
  /\ variant = "plain0"
  /\ \E call \in calls[c] :
       /\ call.op = "fetch" /\ call.stage = "config"
       /\ calls' = [calls EXCEPT ![c] = @ \ {call}]
       /\ config' = [config EXCEPT ![c] =
                       IF call.ok THEN Some(call.current_index) ELSE @]
       /\ error' = [error EXCEPT ![c] = IF call.ok THEN @ ELSE "fetch"]
       /\ loading' = [loading EXCEPT ![c] = FALSE]
  /\ UNCHANGED <<constVars, cloudVars, dbVars, mounted, candidates, result, assigning,
                 inbox, ops, fails>>

\* part_001:1209-1211, the realtime handler.
onUpdate_plain0(c) ==
  /\ variant = "plain0"
  /\ inbox[c] # << >>
  /\ config' = [config EXCEPT ![c] = Some(Head(inbox[c]).current_index)]
  /\ inbox' = [inbox EXCEPT ![c] = Tail(@)]
  /\ UNCHANGED <<constVars, cloudVars, dbVars, mounted, candidates, result, assigning, loading,
                 error, calls, ops, fails>>

\* part_001:1221-1232: the handler up to the response of the update.
handleAssign_plain0(c, count) ==
  IF config[c] = Null \/ Len(candidates[c]) = 0 \/ count <= 0
  THEN UNCHANGED <<constVars, cloudVars, dbVars, mounted, candidates, stateVars, loading,
                      error, inbox, calls, ops, fails>>
  ELSE /\ ops < MaxOps
       /\ ops' = ops + 1
       /\ assigning' = [assigning EXCEPT ![c] = TRUE]
       /\ LET r == computeAssign_plain0(candidates[c], Val(config[c]), count)
          IN \E ok \in Outcomes :
               /\ Spend(ok)
               /\ dbIndex' = IF ok THEN Some(r.endIndex) ELSE dbIndex
               /\ inbox' = IF ok THEN NotifyIndex(r.endIndex) ELSE inbox
               /\ calls' = [calls EXCEPT ![c] = @ \cup
                    {[op |-> "assign", ok |-> ok, count |-> count, r |-> r]}]
       /\ UNCHANGED <<constVars, cloudVars, dbCandidates, mounted, candidates, config, result,
                      loading, error>>

\* part_001:1334, 1345 and 1356: the form is shown while there is neither an
\* error nor a result, and its assign button is disabled while assigning and
\* while count <= 0.
clickAssign_plain0(c) ==
  /\ variant = "plain0"
  /\ mounted[c] /\ ~loading[c]
  /\ error[c] = NoError /\ result[c] = Null
  /\ ~assigning[c]
  /\ \E count \in 1..MaxCount : handleAssign_plain0(c, count)

\* part_001:1232-1239: the continuation of handleAssign.
handleAssign_plain0_await(c) ==
  /\ variant = "plain0"
  /\ \E call \in calls[c] :
       /\ call.op = "assign"
       /\ calls' = [calls EXCEPT ![c] = @ \ {call}]
       /\ result' = [result EXCEPT ![c] = IF call.ok THEN Some(call.r) ELSE @]
       /\ error' = [error EXCEPT ![c] = IF call.ok THEN @ ELSE "assign"]
       /\ assigning' = [assigning EXCEPT ![c] = FALSE]
  /\ UNCHANGED <<constVars, cloudVars, dbVars, mounted, candidates, config, loading, inbox,
                 ops, fails>>

\* part_001:1243-1245, 1334 and 1378: acknowledge, offered while a result is shown
\* and no error is.
resetResultView_plain0(c) ==
  /\ variant = "plain0"
  /\ mounted[c] /\ ~loading[c]
  /\ error[c] = NoError /\ result[c] # Null
  /\ result' = [result EXCEPT ![c] = Null]
  /\ UNCHANGED <<constVars, cloudVars, dbVars, mounted, candidates, config, assigning, loading,
                 error, inbox, calls, ops, fails>>

\* ======================================================================
\* Builds "cloud" (src/App.tsx:374-715) and "cloud0"
\* (src/unnamed/part_001:44-453).  The two share their handlers; where
\* part_001 differs, the difference is one of the four switches below.
\* ======================================================================

\* App.tsx:401-421: only "cloud" subscribes to realtime changes.
subscribes == variant = "cloud"
\* part_001:131-132: a successful cursor write clears the error.
clearsErrorOnSync == variant = "cloud0"
\* part_001:142-145: assigning on an empty roster sets an error.
reportsEmptyRoster == variant = "cloud0"
\* part_001:205-206: a finished import clears the results and the undo.
uploadClearsUndo == variant = "cloud0"

\* Files a user may import: the names a sheet yields (App.tsx:531-534).
Files == {<< >>, <<"X">>}

\* postgres_changes on table candidates (App.tsx:411-418): one notification
\* per row a statement deletes or inserts.
NotifyCandidates(rows) ==
  [d \in Clients |->
     IF mounted[d] /\ subscribes
     THEN inbox[d] \o [i \in 1..rows |-> [table |-> "candidates", current_index |-> 0]]
     ELSE inbox[d]]

\* update app_state set current_index = newIndex where id = 'default'
\* (App.tsx:480-483): no row, no change and no notification.
serverUpdate(ok, newIndex) ==
  /\ dbIndex' = IF ok /\ dbIndex # Null THEN Some(newIndex) ELSE dbIndex
  /\ inbox' = IF ok /\ dbIndex # Null THEN NotifyIndex(newIndex) ELSE inbox

\* The two tables fetchData selects from.
Tables == {"candidates", "state"}

\* App.tsx:434-437: the two selects of Promise.all are two requests, each
\* answered on its own.  When the step that sends them ends, the server has
\* answered the one named first; a failure is known at once.
fetchResponse(ok, first) ==
  [ok |-> ok,
   data |-> IF ok /\ first = "candidates" THEN dbCandidates ELSE << >>,
   row |-> IF ok /\ first = "state" THEN dbIndex ELSE Null,
   answered |-> IF ok THEN {first} ELSE Tables]

\* The server answers the select that is still open from the tables as they
\* are then.
answerSelect(resp) ==
  [ok |-> resp.ok,
   data |-> IF "candidates" \in resp.answered THEN resp.data ELSE dbCandidates,
   row |-> IF "state" \in resp.answered THEN resp.row ELSE dbIndex,
   answered |-> Tables]

\* Variation of walk: the index stops at the last position instead of
\* wrapping to 0.
RECURSIVE walk_noWrap(_, _, _, _)
walk_noWrap(roster, nextIdx, count, results) ==
  IF count <= 0
  THEN [results |-> results, nextIdx |-> nextIdx, thrown |-> FALSE]
  ELSE IF nextIdx >= Len(roster)
  THEN [results |-> results, nextIdx |-> nextIdx, thrown |-> TRUE]
  ELSE walk_noWrap(roster, IF nextIdx + 1 < Len(roster) THEN nextIdx + 1 ELSE nextIdx,
                   count - 1, Append(results, roster[nextIdx + 1]))

\* App.tsx:495-501, the step-by-step walk.  candidates[nextIdx] is undefined
\* when nextIdx is no position of the roster, and reading its name throws.
RECURSIVE walk(_, _, _, _)
walk(roster, nextIdx, count, results) ==
  IF count <= 0
  THEN [results |-> results, nextIdx |-> nextIdx, thrown |-> FALSE]
  ELSE IF nextIdx >= Len(roster)
  THEN [results |-> results, nextIdx |-> nextIdx, thrown |-> TRUE]
  ELSE walk(roster, (nextIdx + 1) % Len(roster), count - 1,
            Append(results, roster[nextIdx + 1]))

\* Two requests of one client that are on their way at the same time are two
\* requests, also when they are alike (the same call at the same stage with
\* the same answer): a request is numbered with the number of outstanding
\* requests of the client that are like it.  Requests that are alike are
\* interchangeable, and the one numbered last stands for whichever of them
\* moves next.
numbered(call, n) == [call EXCEPT !.n = n]

callTag(others, call) ==
  CHOOSE n \in 0..Cardinality(others) :
    /\ numbered(call, n) \notin others
    /\ \A m \in 0..(n - 1) : numbered(call, m) \in others

send(others, call) == others \cup {numbered(call, callTag(others, call))}

lastAlike(c, call) == numbered(call, call.n + 1) \notin calls[c]

\* App.tsx:428-437: fetchData up to the first response of its selects.
fetchData_cloud(c, isManual) ==
  /\ syncing' = [syncing EXCEPT ![c] = IF isManual THEN TRUE ELSE @]
  /\ loading' = [loading EXCEPT ![c] = IF isManual THEN @ ELSE TRUE]
  /\ \E ok \in Outcomes, first \in Tables :
       /\ Spend(ok)
       /\ calls' = [calls EXCEPT ![c] =
                      send(@, [op |-> "fetch", stage |-> "select", n |-> 0,
                               resp |-> fetchResponse(ok, first)])]

\* Variation of applyFetch: a failed fetch reports its error and leaves the
\* roster and the cursor as they are, cache or not.
applyFetch_noFallback(c, resp) ==
  /\ LET remoteIndex == IF resp.row = Null THEN 0 ELSE Val(resp.row)
     IN IF resp.ok
        THEN /\ candidates' = [candidates EXCEPT ![c] = resp.data]
             /\ currentIndex' = [currentIndex EXCEPT ![c] = remoteIndex]
             /\ cache' = [cache EXCEPT ![c] =
                  Some([candidates |-> resp.data, currentIndex |-> remoteIndex])]
             /\ error' = [error EXCEPT ![c] = NoError]
        ELSE /\ error' = [error EXCEPT ![c] = "fetch"]
             /\ UNCHANGED <<candidates, currentIndex, cache>>
  /\ loading' = [loading EXCEPT ![c] = FALSE]
  /\ syncing' = [syncing EXCEPT ![c] = FALSE]

\* App.tsx:447-465 (part_001:81-99): what fetchData sets once the selects, and
\* the insert of a missing cursor row, have been answered; loadCache
\* (467-474) on a failure.
applyFetch(c, resp) ==
  /\ LET remoteIndex == IF resp.row = Null THEN 0 ELSE Val(resp.row)
     IN IF resp.ok
        THEN /\ candidates' = [candidates EXCEPT ![c] = resp.data]
             /\ currentIndex' = [currentIndex EXCEPT ![c] = remoteIndex]
             /\ cache' = [cache EXCEPT ![c] =
                  Some([candidates |-> resp.data, currentIndex |-> remoteIndex])]
             /\ error' = [error EXCEPT ![c] = NoError]
        ELSE /\ error' = [error EXCEPT ![c] = "fetch"]
             /\ candidates' = [candidates EXCEPT ![c] =
                  IF cache[c] # Null THEN Val(cache[c]).candidates ELSE @]
             /\ currentIndex' = [currentIndex EXCEPT ![c] =
                  IF cache[c] # Null THEN Val(cache[c]).currentIndex ELSE @]
             /\ UNCHANGED cache
  /\ loading' = [loading EXCEPT ![c] = FALSE]
  /\ syncing' = [syncing EXCEPT ![c] = FALSE]

\* App.tsx:439-446 (part_001:73-80): the cursor row that was not found is
\* inserted with cursor 0; the answer of the insert is awaited and not looked
\* at.  An insert that finds a row made in the meantime changes nothing.
insertRow ==
  \E insOk \in Outcomes :
    /\ Spend(insOk)
    /\ dbIndex' = IF insOk /\ dbIndex = Null THEN Some(0) ELSE dbIndex

\* App.tsx:390-398, the mount effect: first fetch and subscription.
mount_cloud(c) ==
  /\ variant \in {"cloud", "cloud0"}
  /\ ~mounted[c]
  /\ mounted' = [mounted EXCEPT ![c] = TRUE]
  /\ fetchData_cloud(c, FALSE)
  /\ UNCHANGED <<constVars, dbVars, candidates, stateVars, currentIndex,
                 historyIndex, selectedResults, cache, error, inbox, ops>>

\* App.tsx:584 and 604, the refresh buttons.
refresh_cloud(c) ==
  /\ variant \in {"cloud", "cloud0"}
  /\ mounted[c] /\ ~loading[c]
  /\ ops < MaxOps
  /\ ops' = ops + 1
  /\ fetchData_cloud(c, TRUE)
  /\ UNCHANGED <<constVars, dbVars, mounted, candidates, stateVars, currentIndex,
                 historyIndex, selectedResults, cache, error, inbox>>

\* The server answers the select of a fetch that is still open
\* (App.tsx:435-436).
selectAnswered(c) ==
  /\ variant \in {"cloud", "cloud0"}
  /\ \E call \in calls[c] :
       /\ \/ call.op = "fetch" /\ call.stage = "select"
          \/ call.op = "upload" /\ call.stage = "fetch"
       /\ call.resp.answered # Tables
       /\ calls' = [calls EXCEPT ![c] =
                      IF call.op = "fetch"
                      THEN send(@ \ {call}, [call EXCEPT !.resp = answerSelect(call.resp)])
                      ELSE (@ \ {call}) \cup {[call EXCEPT !.resp = answerSelect(call.resp)]}]
       /\ call.op = "fetch" => lastAlike(c, call)
  /\ UNCHANGED <<constVars, dbVars, mounted, candidates, stateVars, cloudVars,
                 loading, error, inbox, ops, fails>>

\* App.tsx:434-465: both selects have been answered.  A missing cursor row
\* is inserted first; otherwise the fetch ends.
fetchData_cloud_await(c) ==
  /\ variant \in {"cloud", "cloud0"}
  /\ \E call \in calls[c] :
       /\ call.op = "fetch" /\ call.stage = "select"
       /\ call.resp.answered = Tables
       /\ lastAlike(c, call)
       /\ IF call.resp.ok /\ call.resp.row = Null
          THEN /\ insertRow
               /\ calls' = [calls EXCEPT ![c] =
                              send(@ \ {call}, [call EXCEPT !.stage = "insert"])]
               /\ UNCHANGED <<candidates, currentIndex, cache, error, loading,
                              syncing>>
          ELSE /\ calls' = [calls EXCEPT ![c] = @ \ {call}]
               /\ applyFetch(c, call.resp)
               /\ UNCHANGED <<dbIndex, fails>>
  /\ UNCHANGED <<constVars, dbCandidates, mounted, stateVars, historyIndex,
                 selectedResults, inbox, ops>>

\* App.tsx:444-465: the insert of the cursor row has been answered and the
\* fetch ends with cursor 0.
fetchData_cloud_insert_await(c) ==
  /\ variant \in {"cloud", "cloud0"}
  /\ \E call \in calls[c] :
       /\ call.op = "fetch" /\ call.stage = "insert"
       /\ lastAlike(c, call)
       /\ calls' = [calls EXCEPT ![c] = @ \ {call}]
       /\ applyFetch(c, call.resp)
  /\ UNCHANGED <<constVars, dbVars, mounted, stateVars, historyIndex,
                 selectedResults, inbox, ops, fails>>

\* Variation of onUpdate_cloud: a notification that arrives while a cursor
\* write of the client is outstanding is dropped.
onUpdate_cloud_idle(c) ==
  /\ variant = "cloud"
  /\ inbox[c] # << >>
  /\ Head(inbox[c]).table = "state"
  /\ currentIndex' = [currentIndex EXCEPT ![c] =
                        IF syncing[c] THEN @ ELSE Head(inbox[c]).current_index]
  /\ inbox' = [inbox EXCEPT ![c] = Tail(@)]
  /\ UNCHANGED <<constVars, dbVars, mounted, candidates, stateVars, historyIndex,
                 selectedResults, syncing, cache, loading, error, calls, ops, fails>>

\* App.tsx:403-410: the realtime handler of the cursor row.
onUpdate_cloud(c) ==
  /\ variant = "cloud"
  /\ inbox[c] # << >>
  /\ Head(inbox[c]).table = "state"
  /\ currentIndex' = [currentIndex EXCEPT ![c] = Head(inbox[c]).current_index]
  /\ inbox' = [inbox EXCEPT ![c] = Tail(@)]
  /\ UNCHANGED <<constVars, dbVars, mounted, candidates, stateVars, historyIndex,
                 selectedResults, syncing, cache, loading, error, calls, ops, fails>>

\* App.tsx:411-418: the realtime handler of the roster table.
onCandidates_cloud(c) ==
  /\ variant = "cloud"
  /\ inbox[c] # << >>
  /\ Head(inbox[c]).table = "candidates"
  /\ inbox' = [inbox EXCEPT ![c] = Tail(@)]
  /\ fetchData_cloud(c, TRUE)
  /\ UNCHANGED <<constVars, dbVars, mounted, candidates, stateVars, currentIndex,
                 historyIndex, selectedResults, cache, error, ops>>

\* App.tsx:476-483: syncIndexToServer up to the response of the update.
syncIndexToServer(c, newIndex) ==
  /\ syncing' = [syncing EXCEPT ![c] = TRUE]
  /\ \E ok \in Outcomes :
       /\ Spend(ok)
       /\ serverUpdate(ok, newIndex)
       /\ calls' = [calls EXCEPT ![c] =
                      send(@, [op |-> "sync", ok |-> ok, newIndex |-> newIndex,
                               n |-> 0])]

\* App.tsx:484-489 (part_001:131-137): the continuation of syncIndexToServer.
syncError(c, ok) ==
  error' = [error EXCEPT ![c] =
              IF ~ok THEN "sync" ELSE IF clearsErrorOnSync THEN NoError ELSE @]

\* Variation of syncIndexToServer_await: syncing is cleared after the throw
\* check instead of in a finally block, so that a failed write leaves it set.
syncIndexToServer_await_noFinally(c) ==
  /\ variant \in {"cloud", "cloud0"}
  /\ \E call \in calls[c] :
       /\ call.op = "sync"
       /\ lastAlike(c, call)
       /\ calls' = [calls EXCEPT ![c] = @ \ {call}]
       /\ syncError(c, call.ok)
       /\ syncing' = [syncing EXCEPT ![c] = IF call.ok THEN FALSE ELSE @]
  /\ UNCHANGED <<constVars, dbVars, mounted, candidates, stateVars, currentIndex,
                 historyIndex, selectedResults, cache, loading, inbox, ops, fails>>

syncIndexToServer_await(c) ==
  /\ variant \in {"cloud", "cloud0"}
  /\ \E call \in calls[c] :
       /\ call.op = "sync"
       /\ lastAlike(c, call)
       /\ calls' = [calls EXCEPT ![c] = @ \ {call}]
       /\ syncError(c, call.ok)
  /\ syncing' = [syncing EXCEPT ![c] = FALSE]
  /\ UNCHANGED <<constVars, dbVars, mounted, candidates, stateVars, currentIndex,
                 historyIndex, selectedResults, cache, loading, inbox, ops, fails>>

\* App.tsx:492-508 (part_001:141-163).
handleSelect_cloud(c, count) ==
  IF Len(candidates[c]) = 0
  THEN /\ error' = [error EXCEPT ![c] = IF reportsEmptyRoster THEN "empty" ELSE @]
       /\ UNCHANGED <<constVars, dbVars, mounted, candidates, stateVars, cloudVars,
                      loading, inbox, calls, ops, fails>>
  ELSE LET w == walk(candidates[c], currentIndex[c], count, << >>)
       IN IF w.thrown
          THEN UNCHANGED <<constVars, dbVars, mounted, candidates, stateVars,
                              cloudVars, loading, error, inbox, calls, ops, fails>>
          ELSE /\ ops < MaxOps
               /\ ops' = ops + 1
               /\ historyIndex' = [historyIndex EXCEPT ![c] = Some(currentIndex[c])]
               /\ selectedResults' = [selectedResults EXCEPT ![c] = w.results]
               /\ currentIndex' = [currentIndex EXCEPT ![c] = w.nextIdx]
               /\ syncIndexToServer(c, w.nextIdx)
               /\ UNCHANGED <<constVars, dbCandidates, mounted, candidates, stateVars,
                              cache, loading, error>>

\* App.tsx:636-643 (part_001:328-335): the assign button is disabled on an
\* empty roster and while syncing; the count input keeps selectionCount >= 1.
clickSelect_cloud(c) ==
  /\ variant \in {"cloud", "cloud0"}
  /\ mounted[c] /\ ~loading[c] /\ ~syncing[c]
  /\ Len(candidates[c]) > 0
  /\ \E count \in 1..MaxCount : handleSelect_cloud(c, count)

\* The texts a user types into the count input: nothing, a negative number,
\* zero, and the counts up to MaxCount.
TypedCounts == {"", "-3", "0", "1", "2"}

\* parseInt on these texts: NaN (Null) for a text that holds no number.
parseInt(text) ==
  CASE text = "-3" -> Some(0 - 3)
    [] text = "0" -> Some(0)
    [] text = "1" -> Some(1)
    [] text = "2" -> Some(2)
    [] OTHER -> Null

\* Variation of clampCount: Math.max(0, parseInt(text) || 0), the expression
\* of App.tsx:190.
clampCount_orZero(text) ==
  LET n == parseInt(text)
      v == IF n = Null THEN 0 ELSE Val(n)
  IN IF v > 0 THEN v ELSE 0

\* App.tsx:637 (part_001:328 and 686): Math.max(1, parseInt(text) || 1).  NaN
\* and 0 are falsy and give 1.
clampCount(text) ==
  LET n == parseInt(text)
      v == IF n = Null \/ Val(n) = 0 THEN 1 ELSE Val(n)
  IN IF v > 1 THEN v ELSE 1

\* part_001:481: isAutoLoaded of the build "local".  It is set where the
\* mount effect loads the stored pair (493) and where fetchDefaultFile ends
\* (515 and 523): it is true of an open page that does not await the default
\* file.
isAutoLoaded(c) ==
  mounted[c] /\ ~\E call \in calls[c] : call.op = "default"

\* The count input is rendered: in the cloud builds on the page that replaces
\* the loading screen (App.tsx:554, part_001:217), in the build "local" once
\* the page is past its spinner (part_001:669).
countInputShown(c) ==
  IF variant = "local"
  THEN mounted[c] /\ ~(~isAutoLoaded(c) /\ Len(candidates[c]) = 0)
  ELSE mounted[c] /\ ~loading[c]

\* App.tsx:635-638 (part_001:323-329 and 682-687): the change handler of the
\* count input.
onChange_selectionCount(c, text) ==
  /\ variant \in {"cloud", "cloud0", "local"}
  /\ countInputShown(c)
  /\ typed' = [typed EXCEPT ![c] = text]
  /\ selectionCount' = [selectionCount EXCEPT ![c] = clampCount(text)]
  /\ UNCHANGED <<variant, uploads, silent, dbVars, mounted, candidates, stateVars,
                 cloudVars, loading, error, inbox, calls, ops, fails>>

\* App.tsx:640-642 (part_001:331-334): the assign button; handleSelect reads
\* the count the input has stored.
clickSelect_cloud_typed(c) ==
  /\ variant \in {"cloud", "cloud0"}
  /\ mounted[c] /\ ~loading[c] /\ ~syncing[c]
  /\ Len(candidates[c]) > 0
  /\ handleSelect_cloud(c, selectionCount[c])

\* Variation of handleUndo_cloud: with nothing to undo, 0 is restored.
handleUndo_cloud_unguarded(c) ==
  LET prev == IF historyIndex[c] # Null THEN Val(historyIndex[c]) ELSE 0
  IN /\ ops < MaxOps
     /\ ops' = ops + 1
     /\ currentIndex' = [currentIndex EXCEPT ![c] = prev]
     /\ selectedResults' = [selectedResults EXCEPT ![c] = << >>]
     /\ historyIndex' = [historyIndex EXCEPT ![c] = Null]
     /\ syncIndexToServer(c, prev)
     /\ UNCHANGED <<constVars, dbCandidates, mounted, candidates, stateVars,
                    cache, loading, error>>

\* App.tsx:510-518 (part_001:166-174).
handleUndo_cloud(c) ==
  IF historyIndex[c] # Null
  THEN /\ ops < MaxOps
       /\ ops' = ops + 1
       /\ currentIndex' = [currentIndex EXCEPT ![c] = Val(historyIndex[c])]
       /\ selectedResults' = [selectedResults EXCEPT ![c] = << >>]
       /\ historyIndex' = [historyIndex EXCEPT ![c] = Null]
       /\ syncIndexToServer(c, Val(historyIndex[c]))
       /\ UNCHANGED <<constVars, dbCandidates, mounted, candidates, stateVars,
                      cache, loading, error>>
  ELSE UNCHANGED <<constVars, dbVars, mounted, candidates, stateVars, cloudVars,
                      loading, error, inbox, calls, ops, fails>>

\* App.tsx:651: the undo button is disabled while syncing.
clickUndo_cloud(c) ==
  /\ variant \in {"cloud", "cloud0"}
  /\ mounted[c] /\ ~loading[c] /\ ~syncing[c]
  /\ handleUndo_cloud(c)

\* App.tsx:520-525 and 550 (part_001:176-181 and 213): the change handler of
\* the file input.  It sets loading and starts the FileReader on the chosen
\* file, whose names are read when the reader is done.
handleExcelUpload(c, names) ==
  /\ variant \in {"cloud", "cloud0"}
  /\ mounted[c] /\ ~loading[c]
  /\ uploads < MaxUploads
  /\ uploads' = uploads + 1
  /\ loading' = [loading EXCEPT ![c] = TRUE]
  /\ calls' = [calls EXCEPT ![c] = @ \cup
                 {[op |-> "upload", stage |-> "read", names |-> names]}]
  /\ UNCHANGED <<variant, inputVars, silent, dbVars, mounted, candidates, stateVars,
                 cloudVars, error, inbox, ops, fails>>

\* Variation of reader_onload: the rows are deleted before the names of the
\* file are counted.
reader_onload_deletesFirst(c) ==
  /\ variant \in {"cloud", "cloud0"}
  /\ \E call \in calls[c] :
       /\ call.op = "upload" /\ call.stage = "read"
       /\ IF Len(call.names) = 0
          THEN /\ error' = [error EXCEPT ![c] = "upload"]
               /\ loading' = [loading EXCEPT ![c] = FALSE]
               /\ dbCandidates' = << >>
               /\ inbox' = NotifyCandidates(Len(dbCandidates))
               /\ calls' = [calls EXCEPT ![c] = @ \ {call}]
               /\ UNCHANGED fails
          ELSE /\ \E ok \in Outcomes :
                    /\ Spend(ok)
                    /\ dbCandidates' = IF ok THEN << >> ELSE dbCandidates
                    /\ inbox' = IF ok THEN NotifyCandidates(Len(dbCandidates))
                                ELSE inbox
                    /\ calls' = [calls EXCEPT ![c] = (@ \ {call}) \cup
                         {[op |-> "upload", stage |-> "delete", names |-> call.names]}]
               /\ UNCHANGED <<error, loading>>
  /\ UNCHANGED <<constVars, dbIndex, mounted, candidates, stateVars, cloudVars, ops>>

\* App.tsx:526-538 (part_001:182-197): reader.onload up to the response of
\* the delete.  A file with no name is refused before anything is deleted
\* (the throw, catch and finally of 536 and 546-549).
reader_onload(c) ==
  /\ variant \in {"cloud", "cloud0"}
  /\ \E call \in calls[c] :
       /\ call.op = "upload" /\ call.stage = "read"
       /\ IF Len(call.names) = 0
          THEN /\ error' = [error EXCEPT ![c] = "upload"]
               /\ loading' = [loading EXCEPT ![c] = FALSE]
               /\ calls' = [calls EXCEPT ![c] = @ \ {call}]
               /\ UNCHANGED <<dbCandidates, inbox, fails>>
          ELSE /\ \E ok \in Outcomes :
                    /\ Spend(ok)
                    /\ dbCandidates' = IF ok THEN << >> ELSE dbCandidates
                    /\ inbox' = IF ok THEN NotifyCandidates(Len(dbCandidates))
                                ELSE inbox
                    /\ calls' = [calls EXCEPT ![c] = (@ \ {call}) \cup
                         {[op |-> "upload", stage |-> "delete", names |-> call.names]}]
               /\ UNCHANGED <<error, loading>>
  /\ UNCHANGED <<constVars, dbIndex, mounted, candidates, stateVars, cloudVars, ops>>

\* App.tsx:538-539: the answer of the delete is not looked at, and the insert
\* is sent when it has come.  The new rows carry the ids 0..n-1 (App.tsx:534).
\* Rows that are still there, after a delete that failed, hold ids the
\* repository does not fix: when one of them is an id of the new rows the
\* insert fails as a whole, and when they are all larger the new rows are
\* stored in front of them (the roster is read in the order of the ids,
\* App.tsx:435).
upload_insert(c) ==
  /\ variant \in {"cloud", "cloud0"}
  /\ \E call \in calls[c] :
       /\ call.op = "upload" /\ call.stage = "delete"
       /\ \E ok \in Outcomes, collides \in BOOLEAN :
            /\ Spend(ok)
            /\ Len(dbCandidates) = 0 => ~collides
            /\ LET done == ok /\ ~collides
               IN /\ dbCandidates' = IF done THEN call.names \o dbCandidates
                                     ELSE dbCandidates
                  /\ inbox' = IF done THEN NotifyCandidates(Len(call.names)) ELSE inbox
                  /\ calls' = [calls EXCEPT ![c] = (@ \ {call}) \cup
                       {[op |-> "upload", stage |-> "insert", names |-> call.names,
                         ok |-> done]}]
  /\ UNCHANGED <<constVars, dbIndex, mounted, candidates, stateVars, cloudVars,
                 loading, error, ops>>

\* App.tsx:540-542: a failed insert ends the import with an error; otherwise the
\* cursor is reset through syncIndexToServer(0).
upload_sync(c) ==
  /\ variant \in {"cloud", "cloud0"}
  /\ \E call \in calls[c] :
       /\ call.op = "upload" /\ call.stage = "insert"
       /\ IF call.ok
          THEN /\ syncing' = [syncing EXCEPT ![c] = TRUE]
               /\ \E ok \in Outcomes :
                    /\ Spend(ok)
                    /\ serverUpdate(ok, 0)
                    /\ calls' = [calls EXCEPT ![c] = (@ \ {call}) \cup
                         {[op |-> "upload", stage |-> "sync", names |-> call.names,
                           ok |-> ok]}]
               /\ UNCHANGED <<error, loading>>
          ELSE /\ error' = [error EXCEPT ![c] = "upload"]
               /\ loading' = [loading EXCEPT ![c] = FALSE]
               /\ calls' = [calls EXCEPT ![c] = @ \ {call}]
               /\ UNCHANGED <<dbIndex, inbox, syncing, fails>>
  /\ UNCHANGED <<constVars, dbCandidates, mounted, candidates, stateVars,
                 currentIndex, historyIndex, selectedResults, cache, ops>>

\* App.tsx:484-489 and 543: syncIndexToServer finishes and fetchData(true) is
\* called.
upload_fetch(c) ==
  /\ variant \in {"cloud", "cloud0"}
  /\ \E call \in calls[c] :
       /\ call.op = "upload" /\ call.stage = "sync"
       /\ syncError(c, call.ok)
       /\ syncing' = [syncing EXCEPT ![c] = TRUE]
       /\ \E ok \in Outcomes, first \in Tables :
            /\ Spend(ok)
            /\ calls' = [calls EXCEPT ![c] = (@ \ {call}) \cup
                 {[op |-> "upload", stage |-> "fetch", names |-> call.names,
                   reset |-> call.ok, resp |-> fetchResponse(ok, first)]}]
  /\ UNCHANGED <<constVars, dbVars, mounted, candidates, stateVars, currentIndex,
                 historyIndex, selectedResults, cache, loading, inbox, ops>>

\* What ends an import once its fetchData has ended (App.tsx:543-549,
\* part_001:204-211).
uploadEnds(c, call) ==
  /\ calls' = [calls EXCEPT ![c] = @ \ {call}]
  /\ applyFetch(c, call.resp)
  /\ selectedResults' = [selectedResults EXCEPT ![c] =
                           IF uploadClearsUndo THEN << >> ELSE @]
  /\ historyIndex' = [historyIndex EXCEPT ![c] =
                        IF uploadClearsUndo THEN Null ELSE @]

\* App.tsx:439-446 within the fetchData of an import: the cursor row was not
\* found and is inserted.
upload_insertRow(c) ==
  /\ variant \in {"cloud", "cloud0"}
  /\ \E call \in calls[c] :
       /\ call.op = "upload" /\ call.stage = "fetch"
       /\ call.resp.answered = Tables
       /\ call.resp.ok /\ call.resp.row = Null
       /\ insertRow
       /\ calls' = [calls EXCEPT ![c] = (@ \ {call}) \cup
                      {[call EXCEPT !.stage = "row"]}]
  /\ UNCHANGED <<constVars, dbCandidates, mounted, candidates, stateVars, cloudVars,
                 loading, error, inbox, ops>>

\* App.tsx:543-549 (part_001:204-211): fetchData finishes and the import ends.
upload_done(c) ==
  /\ variant \in {"cloud", "cloud0"}
  /\ \E call \in calls[c] :
       /\ call.op = "upload"
       /\ \/ call.stage = "row"
          \/ /\ call.stage = "fetch"
             /\ call.resp.answered = Tables
             /\ ~(call.resp.ok /\ call.resp.row = Null)
       /\ uploadEnds(c, call)
  /\ UNCHANGED <<constVars, dbVars, mounted, stateVars, inbox, ops, fails>>

\* ======================================================================
\* Build "local": src/unnamed/part_001:474-826, one client, no remote store.
\* cache[c] is the entry STORAGE_KEY of the client's localStorage.
\* ======================================================================

\* part_001:469-472: INITIAL_FALLBACK_NAMES, ten names.
FallbackNames == <<"N1", "N2", "N3", "N4", "N5", "N6", "N7", "N8", "N9", "N10">>

\* The name lists of the files chosen in the file input of the local build:
\* none, one name, three names (longer than the default roster).
LocalFiles == {<< >>, <<"X">>, <<"X", "Y", "Z">>}

\* The client of the local build.
LocalClients == {"c1"}

\* part_001:527-533: the effect that runs after every change of candidates or
\* currentIndex and stores the pair when the roster is not empty.
saved(c, roster, idx) ==
  IF Len(roster) > 0 THEN Some([candidates |-> roster, currentIndex |-> idx])
  ELSE cache[c]

\* Variation of mount_local: the stored cursor is not read back.
mount_local_fromZero(c) ==
  /\ variant = "local"
  /\ ~mounted[c]
  /\ mounted' = [mounted EXCEPT ![c] = TRUE]
  /\ loading' = [loading EXCEPT ![c] = FALSE]
  /\ IF cache[c] # Null /\ Len(Val(cache[c]).candidates) > 0
     THEN /\ candidates' = [candidates EXCEPT ![c] = Val(cache[c]).candidates]
          /\ currentIndex' = [currentIndex EXCEPT ![c] = 0]
          /\ cache' = [cache EXCEPT ![c] = saved(c, candidates'[c], currentIndex'[c])]
          /\ UNCHANGED <<calls, fails>>
     ELSE /\ \E ok \in Outcomes :
               /\ Spend(ok)
               /\ calls' = [calls EXCEPT ![c] = @ \cup
                    {[op |-> "default", ok |-> ok, data |-> dbCandidates]}]
          /\ UNCHANGED <<candidates, currentIndex, cache>>
  /\ UNCHANGED <<constVars, dbVars, stateVars, historyIndex, selectedResults, syncing,
                 error, inbox, ops>>

\* part_001:485-503, the mount effect: the stored pair is loaded when it has a
\* roster; otherwise the default file is requested (fetchDefaultFile up to
\* its await).
mount_local(c) ==
  /\ variant = "local"
  /\ ~mounted[c]
  /\ mounted' = [mounted EXCEPT ![c] = TRUE]
  /\ loading' = [loading EXCEPT ![c] = FALSE]
  /\ IF cache[c] # Null /\ Len(Val(cache[c]).candidates) > 0
     THEN /\ candidates' = [candidates EXCEPT ![c] = Val(cache[c]).candidates]
          /\ currentIndex' = [currentIndex EXCEPT ![c] = Val(cache[c]).currentIndex]
          /\ cache' = [cache EXCEPT ![c] = saved(c, candidates'[c], currentIndex'[c])]
          /\ UNCHANGED <<calls, fails>>
     ELSE /\ \E ok \in Outcomes :
               /\ Spend(ok)
               /\ calls' = [calls EXCEPT ![c] = @ \cup
                    {[op |-> "default", ok |-> ok, data |-> dbCandidates]}]
          /\ UNCHANGED <<candidates, currentIndex, cache>>
  /\ UNCHANGED <<constVars, dbVars, stateVars, historyIndex, selectedResults, syncing,
                 error, inbox, ops>>

\* Variation of processExcelData: without a reset the cursor is kept as it
\* is, also when the new roster is shorter.
processExcelData_keepsCursor(c, names, resetIndex) ==
  IF Len(names) = 0
  THEN /\ error' = [error EXCEPT ![c] = "upload"]
       /\ UNCHANGED <<candidates, currentIndex, historyIndex, selectedResults, cache>>
  ELSE /\ candidates' = [candidates EXCEPT ![c] = names]
       /\ currentIndex' = [currentIndex EXCEPT ![c] = IF resetIndex THEN 0 ELSE @]
       /\ historyIndex' = [historyIndex EXCEPT ![c] = IF resetIndex THEN Null ELSE @]
       /\ selectedResults' = [selectedResults EXCEPT ![c] =
            IF resetIndex THEN << >> ELSE @]
       /\ error' = [error EXCEPT ![c] = NoError]
       /\ cache' = [cache EXCEPT ![c] = saved(c, candidates'[c], currentIndex'[c])]

\* part_001:535-565: processExcelData on the names of a file.
processExcelData(c, names, resetIndex) ==
  IF Len(names) = 0
  THEN /\ error' = [error EXCEPT ![c] = "upload"]
       /\ UNCHANGED <<candidates, currentIndex, historyIndex, selectedResults, cache>>
  ELSE /\ candidates' = [candidates EXCEPT ![c] = names]
       /\ currentIndex' = [currentIndex EXCEPT ![c] =
            IF resetIndex THEN 0 ELSE IF @ >= Len(names) THEN 0 ELSE @]
       /\ historyIndex' = [historyIndex EXCEPT ![c] = IF resetIndex THEN Null ELSE @]
       /\ selectedResults' = [selectedResults EXCEPT ![c] =
            IF resetIndex THEN << >> ELSE @]
       /\ error' = [error EXCEPT ![c] = NoError]
       /\ cache' = [cache EXCEPT ![c] = saved(c, candidates'[c], currentIndex'[c])]

\* part_001:506-524: the continuation of fetchDefaultFile.  Without the file
\* the built-in names are used.
fetchDefaultFile_await(c) ==
  /\ variant = "local"
  /\ \E call \in calls[c] :
       /\ call.op = "default"
       /\ calls' = [calls EXCEPT ![c] = @ \ {call}]
       /\ IF call.ok
          THEN processExcelData(c, call.data, FALSE)
          ELSE /\ candidates' = [candidates EXCEPT ![c] = FallbackNames]
               /\ cache' = [cache EXCEPT ![c] = saved(c, FallbackNames, currentIndex[c])]
               /\ UNCHANGED <<currentIndex, historyIndex, selectedResults, error>>
  /\ UNCHANGED <<constVars, dbVars, mounted, stateVars, syncing, loading, inbox, ops,
                 fails>>

\* part_001:567-577: the change handler of the file input starts the
\* FileReader on the chosen file.
handleFileChange(c, names) ==
  /\ variant = "local"
  /\ mounted[c]
  /\ uploads < MaxUploads
  /\ uploads' = uploads + 1
  /\ calls' = [calls EXCEPT ![c] = @ \cup {[op |-> "file", names |-> names]}]
  /\ UNCHANGED <<variant, inputVars, silent, dbVars, mounted, candidates, stateVars,
                 cloudVars, loading, error, inbox, ops, fails>>

\* part_001:571-574: reader.onload, the file that was read replaces the
\* roster.
reader_onload_local(c) ==
  /\ variant = "local"
  /\ \E call \in calls[c] :
       /\ call.op = "file"
       /\ calls' = [calls EXCEPT ![c] = @ \ {call}]
       /\ processExcelData(c, call.names, TRUE)
  /\ UNCHANGED <<constVars, dbVars, mounted, stateVars, syncing, loading, inbox, ops,
                 fails>>

\* Variation of handleSelect_local: an undo point that is already set is
\* kept, so that an undo goes back before the first of two assignments.
handleSelect_local_keepsFirst(c, count) ==
  /\ IF Len(candidates[c]) = 0
     THEN /\ error' = [error EXCEPT ![c] = "empty"]
          /\ UNCHANGED <<historyIndex, selectedResults, currentIndex, cache>>
     ELSE IF count <= 0
     THEN /\ error' = [error EXCEPT ![c] = "count"]
          /\ UNCHANGED <<historyIndex, selectedResults, currentIndex, cache>>
     ELSE LET w == walk(candidates[c], currentIndex[c], count, << >>)
          IN /\ historyIndex' = [historyIndex EXCEPT ![c] =
                  IF @ # Null THEN @ ELSE Some(currentIndex[c])]
             /\ IF w.thrown
                THEN UNCHANGED <<selectedResults, currentIndex, error, cache>>
                ELSE /\ selectedResults' = [selectedResults EXCEPT ![c] = w.results]
                     /\ currentIndex' = [currentIndex EXCEPT ![c] = w.nextIdx]
                     /\ error' = [error EXCEPT ![c] = NoError]
                     /\ cache' = [cache EXCEPT ![c] =
                                    saved(c, candidates[c], w.nextIdx)]
  /\ UNCHANGED <<constVars, dbVars, mounted, candidates, stateVars, syncing, loading,
                 inbox, calls, fails>>

\* part_001:579-603.  The undo point is set before the walk; a walk that
\* reads a position outside the roster throws after it.
handleSelect_local(c, count) ==
  /\ IF Len(candidates[c]) = 0
     THEN /\ error' = [error EXCEPT ![c] = "empty"]
          /\ UNCHANGED <<historyIndex, selectedResults, currentIndex, cache>>
     ELSE IF count <= 0
     THEN /\ error' = [error EXCEPT ![c] = "count"]
          /\ UNCHANGED <<historyIndex, selectedResults, currentIndex, cache>>
     ELSE LET w == walk(candidates[c], currentIndex[c], count, << >>)
          IN /\ historyIndex' = [historyIndex EXCEPT ![c] = Some(currentIndex[c])]
             /\ IF w.thrown
                THEN UNCHANGED <<selectedResults, currentIndex, error, cache>>
                ELSE /\ selectedResults' = [selectedResults EXCEPT ![c] = w.results]
                     /\ currentIndex' = [currentIndex EXCEPT ![c] = w.nextIdx]
                     /\ error' = [error EXCEPT ![c] = NoError]
                     /\ cache' = [cache EXCEPT ![c] =
                                    saved(c, candidates[c], w.nextIdx)]
  /\ UNCHANGED <<constVars, dbVars, mounted, candidates, stateVars, syncing, loading,
                 inbox, calls, fails>>

\* part_001:686-694: the count input keeps selectionCount >= 1 and the button
\* is disabled on an empty roster.
clickSelect_local(c) ==
  /\ variant = "local"
  /\ mounted[c]
  /\ Len(candidates[c]) > 0
  /\ ops < MaxOps
  /\ ops' = ops + 1
  /\ \E count \in 1..MaxCount : handleSelect_local(c, count)

\* part_001:692-694: the assign button; handleSelect reads the count the input
\* has stored.
clickSelect_local_typed(c) ==
  /\ variant = "local"
  /\ mounted[c]
  /\ Len(candidates[c]) > 0
  /\ ops < MaxOps
  /\ ops' = ops + 1
  /\ handleSelect_local(c, selectionCount[c])

\* part_001:605-612.
handleUndo_local(c) ==
  /\ IF historyIndex[c] # Null
     THEN /\ currentIndex' = [currentIndex EXCEPT ![c] = Val(historyIndex[c])]
          /\ selectedResults' = [selectedResults EXCEPT ![c] = << >>]
          /\ historyIndex' = [historyIndex EXCEPT ![c] = Null]
          /\ error' = [error EXCEPT ![c] = NoError]
          /\ cache' = [cache EXCEPT ![c] =
                         saved(c, candidates[c], Val(historyIndex[c]))]
     ELSE UNCHANGED <<currentIndex, selectedResults, historyIndex, error, cache>>
  /\ UNCHANGED <<constVars, dbVars, mounted, candidates, stateVars, syncing, loading,
                 inbox, calls, fails>>

\* part_001:718-721: the undo button is disabled without an undo point.
clickUndo_local(c) ==
  /\ variant = "local"
  /\ mounted[c]
  /\ historyIndex[c] # Null
  /\ ops < MaxOps
  /\ ops' = ops + 1
  /\ handleUndo_local(c)

\* ======================================================================
\* Page reload: the component's state is gone and everything starts from the
\* useState values again; requests on their way are answered to nobody,
\* notifications are no longer received; localStorage and the remote store
\* are what they were.
\* ======================================================================
reload(c) ==
  /\ variant \in {"cloud", "cloud0", "local"}
  /\ mounted[c]
  /\ ops < MaxOps
  /\ ops' = ops + 1
  /\ mounted' = [mounted EXCEPT ![c] = FALSE]
  /\ candidates' = [candidates EXCEPT ![c] = << >>]
  /\ currentIndex' = [currentIndex EXCEPT ![c] = 0]
  /\ historyIndex' = [historyIndex EXCEPT ![c] = Null]
  /\ selectedResults' = [selectedResults EXCEPT ![c] = << >>]
  /\ syncing' = [syncing EXCEPT ![c] = FALSE]
  /\ loading' = [loading EXCEPT ![c] = TRUE]
  /\ error' = [error EXCEPT ![c] = NoError]
  /\ inbox' = [inbox EXCEPT ![c] = << >>]
  /\ calls' = [calls EXCEPT ![c] = {}]
  /\ selectionCount' = [selectionCount EXCEPT ![c] = 1]
  /\ typed' = [typed EXCEPT ![c] = "1"]
  /\ UNCHANGED <<variant, uploads, silent, dbVars, stateVars, cache, fails>>

\* ======================================================================
\* Specification
\* ======================================================================
\* The useState initial values of every client (part_002:16-23,
\* App.tsx:375-388), no page open, nothing stored in localStorage, nothing
\* on its way.
InitPage ==
  /\ mounted = [c \in Clients |-> FALSE]
  /\ candidates = [c \in Clients |-> << >>]
  /\ config = [c \in Clients |-> Null]
  /\ result = [c \in Clients |-> Null]
  /\ assigning = [c \in Clients |-> FALSE]
  /\ currentIndex = [c \in Clients |-> 0]
  /\ historyIndex = [c \in Clients |-> Null]
  /\ selectedResults = [c \in Clients |-> << >>]
  /\ syncing = [c \in Clients |-> FALSE]
  /\ cache = [c \in Clients |-> Null]
  /\ loading = [c \in Clients |-> TRUE]
  /\ error = [c \in Clients |-> NoError]
  /\ inbox = [c \in Clients |-> << >>]
  /\ calls = [c \in Clients |-> {}]
  /\ ops = 0
  /\ fails = 0
  /\ uploads = 0
  /\ selectionCount = [c \in Clients |-> 1]
  /\ typed = [c \in Clients |-> "1"]
  /\ silent = [c \in Clients |-> FALSE]

\* The state before any client has mounted, for the builds vs.  In the build
\* "local" dbCandidates is the roster of the file /candidates.xlsx on the
\* server and there is no cursor row.
InitFor(vs) ==
  /\ variant \in vs
  /\ dbCandidates \in InitRosters
  /\ dbIndex \in IF variant \in {"state", "plain", "plain0"}
                 THEN {Null} \cup {Some(i) : i \in 0..MaxStored}
                 ELSE IF variant = "local" THEN {Null}
                 ELSE {Null} \cup {Some(i) : i \in {j \in 0..MaxStored :
                                                     j = 0 \/ j < Len(dbCandidates)}}
  /\ InitPage

\* The builds of the header, before any page is open.
Init == InitFor({"state", "plain", "plain0", "cloud", "cloud0", "local"})

Next_state ==
  \/ \E c \in Clients : mount_state(c)
  \/ \E c \in Clients : refresh_state(c)
  \/ \E c \in Clients : fetchData_state_await(c)
  \/ \E c \in Clients : fetchData_state_config_await(c)
  \/ \E c \in Clients : onUpdate_state(c)
  \/ \E c \in Clients : clickAssign_state(c)
  \/ \E c \in Clients : handleAssign_state_await(c)
  \/ \E c \in Clients : clickUndo_state(c)
  \/ \E c \in Clients : handleUndo_state_await(c)
  \/ \E c \in Clients : resetRequest(c)

Next_plain ==
  \/ \E c \in Clients : mount_plain(c)
  \/ \E c \in Clients : refresh_plain(c)
  \/ \E c \in Clients : fetchData_plain_await(c)
  \/ \E c \in Clients : fetchData_plain_config_await(c)
  \/ \E c \in Clients : onUpdate_plain(c)
  \/ \E c \in Clients : clickAssign_plain(c)
  \/ \E c \in Clients : handleAssign_plain_await(c)
  \/ \E c \in Clients : handleCancelInput(c)
  \/ \E c \in Clients : resetResultView(c)

Next_plain0 ==
  \/ \E c \in Clients : mount_plain0(c)
  \/ \E c \in Clients : refresh_plain0(c)
  \/ \E c \in Clients : fetchData_plain0_await(c)
  \/ \E c \in Clients : fetchData_plain0_config_await(c)
  \/ \E c \in Clients : onUpdate_plain0(c)
  \/ \E c \in Clients : clickAssign_plain0(c)
  \/ \E c \in Clients : handleAssign_plain0_await(c)
  \/ \E c \in Clients : resetResultView_plain0(c)

\* The builds "plain" and "plain0".
Next_plains == Next_plain \/ Next_plain0

\* The cloud builds without roster imports: every interleaving of gestures,
\* responses and notifications.
Next_cloud ==
  \/ \E c \in Clients : mount_cloud(c)
  \/ \E c \in Clients : refresh_cloud(c)
  \/ \E c \in Clients : selectAnswered(c)
  \/ \E c \in Clients : fetchData_cloud_await(c)
  \/ \E c \in Clients : fetchData_cloud_insert_await(c)
  \/ \E c \in Clients : onUpdate_cloud(c)
  \/ \E c \in Clients : clickSelect_cloud(c)
  \/ \E c \in Clients : syncIndexToServer_await(c)
  \/ \E c \in Clients : clickUndo_cloud(c)

\* The client that is open where rosters are imported.
Importers == {"c1"}

\* The cloud builds with roster imports, for one open client: every
\* interleaving of its gestures, the steps of its imports, the responses and
\* its own notifications.  At most MaxImportOps assigns and refreshes are
\* made; an undo can follow every assign.
Next_import ==
  \/ \E c \in Importers : mount_cloud(c)
  \/ \E c \in Clients : ops < MaxImportOps /\ refresh_cloud(c)
  \/ \E c \in Clients : selectAnswered(c)
  \/ \E c \in Clients : fetchData_cloud_await(c)
  \/ \E c \in Clients : fetchData_cloud_insert_await(c)
  \/ \E c \in Clients : onUpdate_cloud(c)
  \/ \E c \in Clients : onCandidates_cloud(c)
  \/ \E c \in Clients : ops < MaxImportOps /\ clickSelect_cloud(c)
  \/ \E c \in Clients : syncIndexToServer_await(c)
  \/ \E c \in Clients : clickUndo_cloud(c)
  \/ \E c \in Clients, names \in Files : handleExcelUpload(c, names)
  \/ \E c \in Clients : reader_onload(c)
  \/ \E c \in Clients : upload_insert(c)
  \/ \E c \in Clients : upload_sync(c)
  \/ \E c \in Clients : upload_fetch(c)
  \/ \E c \in Clients : upload_insertRow(c)
  \/ \E c \in Clients : upload_done(c)

\* The build "local": its one client.
Next_local ==
  \/ \E c \in LocalClients : mount_local(c)
  \/ \E c \in LocalClients : fetchDefaultFile_await(c)
  \/ \E c \in LocalClients, names \in LocalFiles : handleFileChange(c, names)
  \/ \E c \in LocalClients : reader_onload_local(c)
  \/ \E c \in LocalClients : clickSelect_local(c)
  \/ \E c \in LocalClients : clickUndo_local(c)

\* Every build of the header, each with all its handlers: "state", "plain"
\* and "plain0" with two clients, the cloud builds with their roster imports
\* and one open client, "local" with its one client.
Next == Next_state \/ Next_plain \/ Next_plain0 \/ Next_import \/ Next_local

Spec == Init /\ [][Next]_vars

\* The build "state"; the builds "plain" and "plain0".
Init_state == Init /\ variant = "state"
Init_plain == Init /\ variant \in {"plain", "plain0"}
SpecState == Init_state /\ [][Next_state]_vars
SpecPlain == Init_plain /\ [][Next_plains]_vars
Init_cloud == Init /\ variant \in {"cloud", "cloud0"}
SpecCloud == Init_cloud /\ [][Next_cloud]_vars
SpecImport == Init_cloud /\ [][Next_import]_vars

Init_local == InitFor({"local"})
SpecLocal == Init_local /\ [][Next_local]_vars

\* The cloud builds and the local build with reloads of the page of one
\* client.
Init_restart == InitFor({"cloud", "cloud0", "local"})

Next_restart ==
  \/ Next_cloud
  \/ Next_local
  \/ \E c \in LocalClients : reload(c)

SpecRestart == Init_restart /\ [][Next_restart]_vars

\* The client whose count input is typed into.
InputClients == {"c1"}

\* The cloud builds and the local build with the count input: one client
\* types into it and the assign button takes the count it has stored.
Next_input ==
  \/ \E c \in InputClients : mount_cloud(c)
  \/ \E c \in InputClients : refresh_cloud(c)
  \/ \E c \in InputClients : selectAnswered(c)
  \/ \E c \in InputClients : fetchData_cloud_await(c)
  \/ \E c \in InputClients : fetchData_cloud_insert_await(c)
  \/ \E c \in InputClients : onUpdate_cloud(c)
  \/ \E c \in InputClients, text \in TypedCounts : onChange_selectionCount(c, text)
  \/ \E c \in InputClients : clickSelect_cloud_typed(c)
  \/ \E c \in InputClients : syncIndexToServer_await(c)
  \/ \E c \in InputClients : clickUndo_cloud(c)
  \/ \E c \in InputClients : mount_local(c)
  \/ \E c \in InputClients : fetchDefaultFile_await(c)
  \/ \E c \in InputClients, names \in LocalFiles : handleFileChange(c, names)
  \/ \E c \in InputClients : reader_onload_local(c)
  \/ \E c \in InputClients : clickSelect_local_typed(c)
  \/ \E c \in InputClients : clickUndo_local(c)

SpecInput == Init_restart /\ [][Next_input]_vars

\* The client whose requests may stay unanswered.
LiveClients == {"c1"}

\* The responses to the requests of client c stop coming, and so do its
\* notifications: the connection stalls.  No request of the code carries a
\* timeout or an abort signal (part_002:96-99 and 124-127, App.tsx:87-90 and
\* 479-483, part_001:1232), so the promise a handler awaits then stays
\* pending.
goSilent(c) ==
  /\ mounted[c] /\ ~silent[c]
  /\ silent' = [silent EXCEPT ![c] = TRUE]
  /\ UNCHANGED <<variant, uploads, inputVars, dbVars, mounted, candidates, stateVars,
                 cloudVars, loading, error, inbox, calls, ops, fails>>

\* The builds "state", "plain", "plain0", "cloud" and "cloud0" with one client
\* whose connection may stall: the gestures are those of the page, and a response
\* or a notification is received while the connection has not stalled.
Next_live ==
  \/ \E c \in LiveClients : goSilent(c)
  \/ \E c \in LiveClients : mount_state(c)
  \/ \E c \in LiveClients : refresh_state(c)
  \/ \E c \in LiveClients : ~silent[c] /\ fetchData_state_await(c)
  \/ \E c \in LiveClients : ~silent[c] /\ fetchData_state_config_await(c)
  \/ \E c \in LiveClients : ~silent[c] /\ onUpdate_state(c)
  \/ \E c \in LiveClients : clickAssign_state(c)
  \/ \E c \in LiveClients : ~silent[c] /\ handleAssign_state_await(c)
  \/ \E c \in LiveClients : clickUndo_state(c)
  \/ \E c \in LiveClients : ~silent[c] /\ handleUndo_state_await(c)
  \/ \E c \in LiveClients : resetRequest(c)
  \/ \E c \in LiveClients : mount_plain(c)
  \/ \E c \in LiveClients : refresh_plain(c)
  \/ \E c \in LiveClients : ~silent[c] /\ fetchData_plain_await(c)
  \/ \E c \in LiveClients : ~silent[c] /\ fetchData_plain_config_await(c)
  \/ \E c \in LiveClients : ~silent[c] /\ onUpdate_plain(c)
  \/ \E c \in LiveClients : clickAssign_plain(c)
  \/ \E c \in LiveClients : ~silent[c] /\ handleAssign_plain_await(c)
  \/ \E c \in LiveClients : handleCancelInput(c)
  \/ \E c \in LiveClients : resetResultView(c)
  \/ \E c \in LiveClients : mount_plain0(c)
  \/ \E c \in LiveClients : refresh_plain0(c)
  \/ \E c \in LiveClients : ~silent[c] /\ fetchData_plain0_await(c)
  \/ \E c \in LiveClients : ~silent[c] /\ fetchData_plain0_config_await(c)
  \/ \E c \in LiveClients : ~silent[c] /\ onUpdate_plain0(c)
  \/ \E c \in LiveClients : clickAssign_plain0(c)
  \/ \E c \in LiveClients : ~silent[c] /\ handleAssign_plain0_await(c)
  \/ \E c \in LiveClients : resetResultView_plain0(c)
  \/ \E c \in LiveClients : mount_cloud(c)
  \/ \E c \in LiveClients : refresh_cloud(c)
  \/ \E c \in LiveClients : ~silent[c] /\ selectAnswered(c)
  \/ \E c \in LiveClients : ~silent[c] /\ fetchData_cloud_await(c)
  \/ \E c \in LiveClients : ~silent[c] /\ fetchData_cloud_insert_await(c)
  \/ \E c \in LiveClients : ~silent[c] /\ onUpdate_cloud(c)
  \/ \E c \in LiveClients : clickSelect_cloud(c)
  \/ \E c \in LiveClients : ~silent[c] /\ syncIndexToServer_await(c)
  \/ \E c \in LiveClients : clickUndo_cloud(c)

\* A promise that has settled resumes the handler that awaits it: while the
\* connection of a client has not stalled, the response of each of its cursor
\* writes comes and the continuation of the handler runs to its end
\* (part_002:101-116 and 129-139, App.tsx:92-104 and 484-489,
\* part_001:1232-1239).
Continuations ==
  \A c \in LiveClients :
    /\ WF_vars(~silent[c] /\ handleAssign_state_await(c))
    /\ WF_vars(~silent[c] /\ handleUndo_state_await(c))
    /\ WF_vars(~silent[c] /\ handleAssign_plain_await(c))
    /\ WF_vars(~silent[c] /\ handleAssign_plain0_await(c))
    /\ WF_vars(~silent[c] /\ syncIndexToServer_await(c))

Init_live == InitFor({"state", "plain", "plain0", "cloud", "cloud0"})

SpecLive == Init_live /\ [][Next_live]_vars /\ Continuations

\* The assign handlers at every count up to MaxWalk, on the rosters of
\* WalkRosters: the store holds one of these rosters and a cursor row on one
\* of its positions, or no cursor row; one client opens the page.
WalkClients == {"c1"}

Init_walk ==
  /\ variant \in {"state", "plain", "cloud"}
  /\ dbCandidates \in WalkRosters
  /\ dbIndex \in {Null} \cup {Some(i) : i \in 0..Len(dbCandidates) - 1}
  /\ InitPage

\* part_002:213 and 222-229: the assign button with any count the input holds.
handleAssign_state_walk(c) ==
  /\ variant = "state"
  /\ assignEnabled_state(c)
  /\ \E count \in 1..MaxWalk : handleAssign_state(c, count)

\* App.tsx:180 and 211-214: the assign button with any count the input holds.
handleAssign_plain_walk(c) ==
  /\ variant = "plain"
  /\ mounted[c] /\ ~loading[c] /\ result[c] = Null
  /\ ~assigning[c] /\ error[c] = NoError
  /\ \E count \in 1..MaxWalk : handleAssign_plain(c, count)

\* App.tsx:636-643: the assign button with any count the input holds.
handleSelect_cloud_walk(c) ==
  /\ variant \in {"cloud", "cloud0"}
  /\ mounted[c] /\ ~loading[c] /\ ~syncing[c]
  /\ Len(candidates[c]) > 0
  /\ \E count \in 1..MaxWalk : handleSelect_cloud(c, count)

Next_walk ==
  \/ \E c \in WalkClients : mount_state(c)
  \/ \E c \in WalkClients : refresh_state(c)
  \/ \E c \in WalkClients : fetchData_state_await(c)
  \/ \E c \in WalkClients : fetchData_state_config_await(c)
  \/ \E c \in WalkClients : onUpdate_state(c)
  \/ \E c \in WalkClients : handleAssign_state_walk(c)
  \/ \E c \in WalkClients : handleAssign_state_await(c)
  \/ \E c \in WalkClients : clickUndo_state(c)
  \/ \E c \in WalkClients : handleUndo_state_await(c)
  \/ \E c \in WalkClients : resetRequest(c)
  \/ \E c \in WalkClients : mount_plain(c)
  \/ \E c \in WalkClients : refresh_plain(c)
  \/ \E c \in WalkClients : fetchData_plain_await(c)
  \/ \E c \in WalkClients : fetchData_plain_config_await(c)
  \/ \E c \in WalkClients : onUpdate_plain(c)
  \/ \E c \in WalkClients : handleAssign_plain_walk(c)
  \/ \E c \in WalkClients : handleAssign_plain_await(c)
  \/ \E c \in WalkClients : handleCancelInput(c)
  \/ \E c \in WalkClients : resetResultView(c)
  \/ \E c \in WalkClients : mount_cloud(c)
  \/ \E c \in WalkClients : refresh_cloud(c)
  \/ \E c \in WalkClients : selectAnswered(c)
  \/ \E c \in WalkClients : fetchData_cloud_await(c)
  \/ \E c \in WalkClients : fetchData_cloud_insert_await(c)
  \/ \E c \in WalkClients : onUpdate_cloud(c)
  \/ \E c \in WalkClients : handleSelect_cloud_walk(c)
  \/ \E c \in WalkClients : syncIndexToServer_await(c)
  \/ \E c \in WalkClients : clickUndo_cloud(c)

SpecWalk == Init_walk /\ [][Next_walk]_vars

\* ======================================================================
\* Properties
\* ======================================================================

\* The assign call a step of client c sends ("state", "plain", "plain0").
sentAssign(c) == {call \in calls'[c] \ calls[c] : call.op = "assign"}
\* The undo call a step of client c sends ("state").
sentUndo(c) == {call \in calls'[c] \ calls[c] : call.op = "undo"}
\* A step of client c is a handleSelect that walked ("cloud", "cloud0").
selectStep(c) ==
  /\ \E call \in calls'[c] \ calls[c] : call.op = "sync"
  /\ selectedResults'[c] # << >>
\* A step of client c is a handleUndo that restored ("cloud", "cloud0").
undoStep(c) ==
  /\ \E call \in calls'[c] \ calls[c] : call.op = "sync"
  /\ selectedResults'[c] = << >>

\* C1: for a non-empty roster of length L, a cursor s in 0..L-1 and a count > 0,
\* an assign whose write succeeds (returns no error) returns exactly count
\* names and leaves the persisted cursor, and the recorded end of the walk, at
\* (s + count) mod L.
C1_assign(c) ==
  \A call \in sentAssign(c) :
    LET s == Val(config[c])
        L == Len(candidates[c])
    IN (call.ok /\ s < L) =>
         /\ call.count > 0
         /\ Len(call.r.assignedNames) = call.count
         /\ call.r.endIndex = (s + call.count) % L
         /\ dbIndex' = Some((s + call.count) % L)
C1_select(c) ==
  LET s == currentIndex[c]
      L == Len(candidates[c])
  IN (selectStep(c) /\ s < L) =>
       /\ \E count \in 1..MaxCount :
            /\ walk(candidates[c], s, count, << >>).results = selectedResults'[c]
            /\ Len(selectedResults'[c]) = count
            /\ currentIndex'[c] = (s + count) % L
       /\ \A call \in calls'[c] \ calls[c] :
            call.ok => dbIndex' = Some(currentIndex'[c])
C1_EndOfWalk == [][\A c \in Clients : C1_assign(c) /\ C1_select(c)]_vars

\* The name at position (s + i) mod L of a roster, for i counted from 0.
nameAt(roster, s, i) == roster[((s + i) % Len(roster)) + 1]

\* C2: for a non-empty roster of length L, a start cursor s and a count > 0,
\* count >= L included, element i of the assigned sequence is the name at
\* roster position (s + i) mod L, for every i in 0..count-1.
C2_Positions ==
  \A c \in Clients :
    /\ result[c] # Null =>
         LET r == Val(result[c])
         IN \A i \in 0..Len(r.assignedNames) - 1 :
              r.assignedNames[i + 1] = nameAt(candidates[c], r.startIndex, i)
    /\ historyIndex[c] # Null =>
         \A i \in 0..Len(selectedResults[c]) - 1 :
           selectedResults[c][i + 1] = nameAt(candidates[c], Val(historyIndex[c]), i)
    /\ (mounted[c] /\ Len(candidates[c]) > 0 /\ dbIndex # Null) =>
         \A count \in 1..MaxWalk :
           /\ Len(computeAssign_state(candidates[c], Val(dbIndex), count).assignedNames)
                = count
           /\ Len(computeAssign_plain(candidates[c], Val(dbIndex), count).assignedNames)
                = count
           /\ Len(walk(candidates[c], Val(dbIndex), count, << >>).results) = count

\* Seven names from position 2 of a roster of three: the walk has wrapped twice.
C2_Witness ==
  \E c \in Clients :
    /\ variant = "state"
    /\ result[c] # Null
    /\ Val(result[c]).startIndex = 2
    /\ Val(result[c]).assignedNames = <<"C", "A", "B", "C", "A", "B", "C">>
\* The same walk taken step by step by handleSelect.
C2_WitnessSelect ==
  \E c \in Clients :
    /\ variant = "cloud"
    /\ historyIndex[c] = Some(2)
    /\ selectedResults[c] = <<"C", "A", "B", "C", "A", "B", "C">>

\* No client but c is open.
alone(c) == \A d \in Clients \ {c} : ~mounted[d]

\* C3: consecutive assignments by one client continue the round-robin.  The
\* client is alone and the notification of its last successful write, which
\* ended at e, is still on its way; the result has been acknowledged (the
\* assign button is back): the walk of the assign it sends starts at e.
C3_Continues ==
  [][\A c \in Clients :
       (alone(c) /\ inbox[c] # << >>) =>
         \A call \in sentAssign(c) :
           call.r.startIndex = inbox[c][Len(inbox[c])].current_index]_vars

\* The step in which the cursor notification at the head of client c's
\* queue is delivered.
delivered(c) ==
  /\ inbox[c] # << >>
  /\ Head(inbox[c]).table = "state"
  /\ inbox'[c] = Tail(inbox[c])

\* A single client, no failure: an assign of count names from a cursor s on a
\* position of the roster, followed by undo while the persisted cursor is
\* where the assign left it.  The undo writes s to the persisted cursor, and
\* the local cursor is s when the handler has set it (handleUndo of App.tsx at
\* once, handleUndo of part_002 when its write has been answered).
C4_undoSent(c) ==
  \A call \in sentUndo(c) :
    LET r == Val(result[c])
        L == Len(candidates[c])
    IN (alone(c) /\ fails' = 0 /\ r.previousIndex < L
          /\ dbIndex = Some((r.previousIndex + Len(r.assignedNames)) % L)) =>
         /\ call.target = r.previousIndex
         /\ dbIndex' = Some(call.target)
C4_undoDone(c) ==
  \A call \in calls[c] \ calls'[c] :
    (call.op = "undo" /\ call.ok /\ alone(c)) =>
      /\ config'[c] = Some(call.target)
      /\ dbIndex' = Some(call.target)
C4_undoCloud(c) ==
  LET s == Val(historyIndex[c])
      L == Len(candidates[c])
  IN (undoStep(c) /\ alone(c) /\ fails' = 0 /\ s < L
        /\ dbIndex = Some((s + Len(selectedResults[c])) % L)) =>
       /\ dbIndex' = Some(s)
       /\ currentIndex'[c] = s

\* The write of an undo of handleUndo (App.tsx:510-518) that client c still
\* awaits across a step: a sync call while no cursor to restore is held.
undoAwaited(c) ==
  {call \in calls[c] \cap calls'[c] : call.op = "sync" /\ historyIndex[c] = Null}

\* While a lone client awaits the write of its undo, its local cursor stays
\* at the restored s.
C4_kept(c) ==
  \A call \in undoAwaited(c) :
    (alone(c) /\ fails' = 0 /\ call.ok /\ currentIndex[c] = call.newIndex
       /\ dbIndex = Some(call.newIndex))
      => currentIndex'[c] = call.newIndex

\* When the last notification of a lone client has been delivered, with
\* nothing failed and no call awaited, its local cursor is the persisted one.
C4_settled(c) ==
  (delivered(c) /\ alone(c) /\ fails = 0 /\ calls[c] = {} /\ inbox'[c] = << >>) =>
    IF variant = "cloud" THEN dbIndex' = Some(currentIndex'[c])
                         ELSE dbIndex' = config'[c]

\* C4 as stated: with a single client and no interference, an assign from a
\* cursor s followed immediately by undo leaves the persisted cursor and the
\* local cursor at s: the undo restores both and the local cursor stays at s.
C4_UndoKeepsCursor ==
  [][\A c \in Clients :
       C4_undoSent(c) /\ C4_undoDone(c) /\ C4_undoCloud(c) /\ C4_kept(c)]_vars

\* C4: with a single client and no interference, an assign from a cursor s
\* followed immediately by undo leaves the persisted cursor at s; the local
\* cursor is s when the undo has set it, and it is the persisted cursor again
\* when the notifications of the client's own writes have all been
\* delivered.  (In between, the notification of the assign puts the local
\* cursor back at the end of the assign.)
C4_UndoRestores ==
  [][\A c \in Clients :
       C4_undoSent(c) /\ C4_undoDone(c) /\ C4_undoCloud(c) /\ C4_settled(c)]_vars

\* A lone client has assigned and undone, nothing failed and nothing is
\* awaited; the notification of the assign has been delivered after the undo:
\* the local cursor is not the persisted one, whose notification is next.
C4_Witness ==
  \E c \in Clients :
    /\ variant = "cloud"
    /\ alone(c)
    /\ mounted[c] /\ ~loading[c] /\ ~syncing[c]
    /\ ops = 2 /\ fails = 0 /\ uploads = 0
    /\ historyIndex[c] = Null /\ selectedResults[c] = << >>
    /\ calls[c] = {}
    /\ Len(inbox[c]) = 1
    /\ dbIndex = Some(inbox[c][1].current_index)
    /\ dbIndex # Some(currentIndex[c])

\* C5: undo with no pending assignment is a no-op.  No step sends an undo
\* write, moves the local cursor back or changes anything else on behalf of an
\* undo unless an assignment is pending: a step that sends the write of an
\* undo starts where a result (a historyIndex) is held.
C5_NoPendingNoUndo ==
  [][\A c \in Clients :
       /\ sentUndo(c) # {} => result[c] # Null
       /\ undoStep(c) => historyIndex[c] # Null]_vars

\* After an assign and its undo the undo button can be pressed again, with
\* nothing pending.
C5_Witness ==
  \E c \in Clients :
    /\ variant = "cloud"
    /\ alone(c)
    /\ mounted[c] /\ ~loading[c] /\ ~syncing[c]
    /\ ops = 2 /\ fails = 0
    /\ historyIndex[c] = Null
    /\ selectedResults[c] = << >>
    /\ Len(inbox[c]) = 2
    /\ inbox[c][1].current_index # inbox[c][2].current_index
    /\ dbIndex = Some(currentIndex[c])

\* C6: an undo takes effect only when the assignment it reverses is the most
\* recent successful assignment on the shared cursor.  A step that sends the
\* write of an undo therefore finds the shared cursor where the assignment
\* being undone left it; it does not, once another client's assignment has
\* been persisted since.
C6_UndoOnlyMostRecent ==
  [][\A c \in Clients :
       sentUndo(c) # {} => dbIndex = Some(Val(result[c]).endIndex)]_vars

\* C7: whenever a client holds a non-empty roster of length L, the persisted
\* cursor and the client's local cursor are positions of that roster, 0..L-1.
C7_CursorInRange ==
  \A c \in Clients :
    (mounted[c] /\ Len(candidates[c]) > 0) =>
      /\ currentIndex[c] < Len(candidates[c])
      /\ dbIndex # Null => Val(dbIndex) < Len(candidates[c])

\* C8: when the cursor p an assign starts from is >= the roster length L, the
\* assign first reduces it modulo L: it reads no position outside 0..L-1, the
\* names are those at (p mod L + i) mod L and the new cursor is
\* ((p mod L) + count) mod L.  Stated for handleSelect wherever its button can
\* be pressed.
C8_ReducesFirst ==
  \A c \in Clients :
    LET p == currentIndex[c]
        L == Len(candidates[c])
    IN (mounted[c] /\ ~loading[c] /\ ~syncing[c] /\ L > 0 /\ p >= L) =>
         \A count \in 1..MaxCount :
           LET w == walk(candidates[c], p, count, << >>)
           IN /\ ~w.thrown
              /\ w.results = [i \in 1..count |-> nameAt(candidates[c], p % L, i - 1)]
              /\ w.nextIdx = ((p % L) + count) % L

\* C9: the value an undo writes to the shared cursor is the startIndex recorded
\* in the pending result, also when the result was produced from a cursor that
\* had drifted to a value >= the roster length.
C9_UndoWritesStart ==
  [][\A c \in Clients :
       \A call \in sentUndo(c) : call.target = Val(result[c]).startIndex]_vars

\* C10: with an empty roster an assign computes nothing.  A client whose
\* roster is empty sends no cursor write for an assign, and none of its steps
\* gives it a result, names or a cursor to restore by undo: what it holds of
\* these can only be cleared.
C10_step(c) ==
  Len(candidates[c]) = 0 =>
    /\ sentAssign(c) = {}
    /\ ~selectStep(c)
    /\ result'[c] # Null => result'[c] = result[c]
    /\ selectedResults'[c] # << >> => selectedResults'[c] = selectedResults[c]
    /\ historyIndex'[c] # Null => historyIndex'[c] = historyIndex[c]
C10_EmptyRoster == [][\A c \in Clients : C10_step(c)]_vars

\* The assign button of part_002 can be pressed on an empty roster: the cursor
\* row is loaded, the roster is empty, nothing is shown or under way.
C10_Witness ==
  \E c \in Clients :
    /\ variant = "state"
    /\ assignEnabled_state(c)
    /\ config[c] # Null
    /\ Len(candidates[c]) = 0
    /\ dbCandidates = << >>
    /\ calls[c] = {}
    /\ result[c] = Null

\* A text of the count input that holds no number above 0.
invalidCount(text) == parseInt(text) = Null \/ Val(parseInt(text)) <= 0

\* C11: no assign is made with a count of 0 or less.  The count a client
\* holds is at least 1; a change of the count input to a text that holds no
\* number above 0 stores 1 and sends no cursor write, moves no cursor and
\* records no undo; an assign walks as many names as the count held, and no
\* step sends a cursor write and records an undo while it assigned no name.
C11_InvalidCount ==
  [][\A c \in Clients :
       /\ selectionCount'[c] >= 1
       /\ (typed'[c] # typed[c] /\ invalidCount(typed'[c])) =>
            /\ selectionCount'[c] = 1
            /\ UNCHANGED <<dbIndex, calls, currentIndex, historyIndex,
                           selectedResults, cache, error>>
       /\ (selectedResults'[c] # selectedResults[c] /\ selectedResults'[c] # << >>) =>
            Len(selectedResults'[c]) = selectionCount[c]
       /\ ~(/\ \E call \in calls'[c] \ calls[c] : call.op = "sync"
            /\ historyIndex'[c] # Null
            /\ selectedResults'[c] = << >>)]_vars

\* C11 witness: -3 was typed into the count input of a cloud build, the count
\* held is 1, and the assign pressed after it assigned one name.
C11_Witness ==
  \E c \in Clients :
    /\ variant = "cloud"
    /\ typed[c] = "-3"
    /\ selectionCount[c] = 1
    /\ historyIndex[c] # Null
    /\ Len(selectedResults[c]) = 1


\* The step of client c that ends an import with its success message
\* (App.tsx:545, part_001:207).
importEnded(c) ==
  {call \in calls[c] \ calls'[c] :
     /\ call.op = "upload" /\ call.stage \in {"fetch", "row"}
     /\ \A k \in calls'[c] : k.op # "upload"}

importReported(c) == importEnded(c) # {}

\* C12: whenever a roster replacement reports success, the shared cursor is 0
\* and the replacing client's local cursor is 0.
C12_ReplaceResetsCursor ==
  [][\A c \in Clients :
       importReported(c) => (dbIndex' = Some(0) /\ currentIndex'[c] = 0)]_vars


\* C13: after a roster has been replaced no client still has a pending undo
\* of an assignment made against the old roster: when an import ends with its
\* success message, no client holds a cursor to restore.
C13_NoUndoAcrossReplace ==
  [][\A c \in Clients :
       importReported(c) => \A d \in Clients : historyIndex'[d] = Null]_vars


\* A roster that is wholly a stored roster, empty, or wholly an imported file.
wholly(roster) == roster = << >> \/ roster \in InitRosters \/ roster \in Files

\* C14: during and after a replacement every roster a client can observe
\* (the table, a response on its way, the local roster, the cached one) is
\* wholly the old roster, empty, or wholly the new one, also when the delete
\* or the insert fails.
C14_NoMixedRoster ==
  /\ wholly(dbCandidates)
  /\ \A c \in Clients :
       /\ wholly(candidates[c])
       /\ cache[c] # Null => wholly(Val(cache[c]).candidates)
       /\ \A call \in calls[c] :
            (call.op = "fetch" \/ (call.op = "upload" /\ call.stage \in {"fetch", "row"}))
              => wholly(call.resp.data)

\* The step of client c that ends an import on its failed insert
\* (App.tsx:540 and 546-547).
importFailed(c) ==
  \E call \in calls[c] \ calls'[c] :
    call.op = "upload" /\ call.stage = "insert" /\ ~call.ok

\* C15: when the insert of a replacement fails after its delete emptied the
\* table, the failure is reported and the roster the replacing client holds
\* is empty.
C15_FailedInsertEmptiesView ==
  [][\A c \in Clients :
       (importFailed(c) /\ dbCandidates = << >>)
         => (error'[c] = "upload" /\ candidates'[c] = << >>)]_vars


\* The step of client c in which a failed cursor write of the cloud builds
\* completes (App.tsx:485-489).
syncFailed(c) ==
  \E call \in calls[c] \ calls'[c] : call.op = "sync" /\ ~call.ok

\* C16: when the cursor write of an assign fails, the local cursor is back at
\* its value of before the assign once the operation completes: the cursor
\* the assign started from is the one it recorded in historyIndex.
C16_FailedAssignRolledBack ==
  [][\A c \in Clients :
       (syncFailed(c) /\ historyIndex[c] # Null /\ selectedResults[c] # << >>)
         => currentIndex'[c] = Val(historyIndex[c])]_vars


\* C17: when the cursor reset of a replacement fails, the error indicator is
\* set when the replacement completes: the later steps of the import do not
\* clear it.
C17_ResetErrorKept ==
  [][\A c \in Clients :
       (\E call \in importEnded(c) : ~call.reset)
         => error'[c] # NoError]_vars


\* The cursor writes of client c that have not completed.
outstanding(c) == {call \in calls[c] : call.op = "sync"}

\* C18: within one client assign and undo are serialized: at most one cursor
\* write is outstanding, and while one is outstanding the assign and undo
\* controls are disabled (syncing), whatever refresh or notification
\* completes in between.
C18_Serialized ==
  \A c \in Clients :
    /\ Cardinality(outstanding(c)) <= 1
    /\ outstanding(c) # {} => syncing[c]


\* C19: two clients that read the same cursor s both compute their
\* assignment from s, and the shared cursor then reflects only one of the two
\* writes: whenever two clients show results that started at the same cursor
\* and no call is outstanding, the stored cursor is the end of one of the two
\* walks.
C19_LostUpdate ==
  \A c, d \in Clients :
    (/\ c # d
     /\ variant = "state"
     /\ result[c] # Null /\ result[d] # Null
     /\ Val(result[c]).startIndex = Val(result[d]).startIndex
     /\ calls[c] = {} /\ calls[d] = {})
      => dbIndex \in {Some(Val(result[c]).endIndex), Some(Val(result[d]).endIndex)}

\* C19 witness: both clients assigned from the same cursor, both writes
\* succeeded and completed, and the stored cursor is the end of the second
\* walk alone, not the cursor the two assignments give one after the other.
C19_Witness ==
  \E c, d \in Clients :
    /\ c # d
    /\ variant = "state"
    /\ result[c] # Null /\ result[d] # Null
    /\ calls[c] = {} /\ calls[d] = {}
    /\ LET rc == Val(result[c])
           rd == Val(result[d])
       IN /\ rc.startIndex = rd.startIndex
          /\ rc.endIndex # rd.endIndex
          /\ dbIndex = Some(rd.endIndex)
          /\ dbIndex # Some((rc.startIndex + Len(rc.assignedNames)
                               + Len(rd.assignedNames)) % Len(candidates[c]))


\* C20: when a notification carrying the cursor v is delivered to a client,
\* its local cursor becomes v in that step, whatever it was before and
\* whether or not the client shows a result or has a call outstanding.
C20_NotificationSetsCursor ==
  [][\A c \in Clients :
       delivered(c) =>
         LET v == Head(inbox[c]).current_index
         IN IF variant = "cloud" THEN currentIndex'[c] = v
                                 ELSE config'[c] = Some(v)]_vars

\* C20 witness: a client of part_002 that shows a result and awaits the write
\* of its undo holds a cursor that is neither the end nor the start of its
\* own assignment: the notification of another client's write set it.
C20_Witness ==
  \E c \in Clients :
    /\ variant = "state"
    /\ result[c] # Null
    /\ \E call \in calls[c] : call.op = "undo"
    /\ inbox[c] = << >>
    /\ config[c] # Null
    /\ config[c] # Some(Val(result[c]).endIndex)
    /\ config[c] # Some(Val(result[c]).previousIndex)


\* No call of any client is outstanding and every notification is delivered.
quiescent == \A c \in Clients : calls[c] = {} /\ inbox[c] = << >>

\* The cursor client c holds: config.current_index in the builds "state",
\* "plain" and "plain0", currentIndex in the cloud builds.
localCursor(c) ==
  IF variant \in {"state", "plain", "plain0"} THEN config[c]
  ELSE Some(currentIndex[c])

\* C21: all clients observe the same cursor: in every quiescent state each
\* client that is loaded and shows no error holds the persisted cursor.
C21_QuiescentAgreement ==
  (quiescent /\ dbIndex # Null)
    => \A c \in Clients :
         (mounted[c] /\ ~loading[c] /\ error[c] = NoError)
           => localCursor(c) = dbIndex


\* A step in which client c sends a cursor write that succeeds: an assign, an
\* undo, or the reset of an import.
wroteCursor(c) ==
  \/ \E call \in calls'[c] \ calls[c] :
       /\ call.op \in {"assign", "undo", "sync"}
       /\ call.ok
  \/ upload_sync(c) /\ dbIndex' = Some(0)

\* A step in which a fetchData of client c, having found no cursor row,
\* sends the insert of the row (App.tsx:441-444, part_001:75-78).
insertedRow(c) ==
  \/ \E call \in calls'[c] \ calls[c] : call.op = "fetch" /\ call.stage = "insert"
  \/ upload_insertRow(c)

\* C22 as stated: the persisted cursor changes only through a successful
\* assign write, an undo write or the reset to 0 of a roster replacement;
\* acknowledge, fetch, notification, cache fallback and failed or refused
\* operations leave it as it is.
C22_OnlyWrites ==
  [][dbIndex' # dbIndex => \E c \in Clients : wroteCursor(c)]_vars

\* C22: the cursor row, once it exists, changes only through a successful
\* assign write, an undo write or the reset to 0 of a roster replacement,
\* and it is never removed; while it does not exist, the one step that
\* changes the store is a fetch that inserts it with cursor 0.  Acknowledge,
\* notification, cache fallback and failed or refused operations change
\* nothing.
C22_CursorFrame ==
  [][dbIndex' # dbIndex =>
       IF dbIndex = Null
       THEN dbIndex' = Some(0) /\ \E c \in Clients : insertedRow(c)
       ELSE dbIndex' # Null /\ \E c \in Clients : wroteCursor(c)]_vars

\* C22 witness: before any write was sent, a fetch that found no cursor row
\* has inserted it: the store holds cursor 0 where it held no row, and the
\* fetch awaits the answer of its insert.
C22_Witness ==
  \E c \in Clients : \E call \in calls[c] :
    /\ variant \in {"cloud", "cloud0"}
    /\ ops = 0 /\ fails = 0
    /\ call.op = "fetch" /\ call.stage = "insert"
    /\ call.resp.row = Null
    /\ dbIndex = Some(0)


\* The step in which client c acknowledges its result: the result goes away
\* and no call of the client completes.
ackStep(c) ==
  /\ variant \in {"state", "plain", "plain0"}
  /\ result[c] # Null /\ result'[c] = Null
  /\ calls'[c] = calls[c]

\* C23: acknowledging a result returns the client to the state without a
\* result, leaves the local and the persisted cursor where the assignment
\* put them, and discards the undo: a client without a result sends no undo
\* write.
C23_Acknowledge ==
  [][\A c \in Clients :
       /\ ackStep(c) => (config'[c] = config[c] /\ dbIndex' = dbIndex)
       /\ result[c] = Null => sentUndo(c) = {}]_vars

\* C23 witness: the one gesture so far was an assign of client c; its write
\* succeeded (the other client holds its notification), its result was
\* shown and acknowledged, and c and the store hold the cursor it wrote.
C23_Witness ==
  \E c, d \in Clients :
    /\ c # d
    /\ variant = "state"
    /\ ops = 1
    /\ result[c] = Null /\ calls[c] = {} /\ error[c] = NoError
    /\ config[d] = Null /\ result[d] = Null
    /\ inbox[d] # << >>
    /\ dbIndex = Some(Head(inbox[d]).current_index)
    /\ config[c] = dbIndex


\* C24: assign is accepted only while no result is pending: a client that
\* sends the cursor write of an assign has no result displayed and no undo
\* pending from an earlier assignment.
C24_AssignOnlyInIdle ==
  [][\A c \in Clients :
       /\ sentAssign(c) # {} => result[c] = Null
       /\ selectStep(c) => (historyIndex[c] = Null /\ selectedResults[c] = << >>)]_vars


\* The fetches of client c that end in a step: their last response is
\* delivered and no request of theirs remains.
fetchEnded(c) ==
  {call \in calls[c] :
     /\ call.op = "fetch" /\ mounted'[c]
     /\ calls'[c] = calls[c] \ {call}}

\* The select of the cursor row of a fetch found no row.
foundNoRow(call) ==
  IF variant \in {"cloud", "cloud0"}
  THEN call.resp.ok /\ call.resp.row = Null
  ELSE call.stage = "config" /\ dbIndex = Null

\* C25: reading the cursor while no cursor row exists creates the row with
\* the value 0 and returns 0 without an error: a row that comes into
\* existence holds 0, and when a fetch whose select found no cursor row
\* ends and no call has failed, the client shows no error, its cursor is 0
\* and the row exists.
C25_ReadCreatesRow ==
  [][/\ (dbIndex = Null /\ dbIndex' # Null) => dbIndex' = Some(0)
     /\ \A c \in Clients : \A call \in fetchEnded(c) :
          (foundNoRow(call) /\ fails' = 0)
            => (/\ error'[c] = NoError
                /\ localCursor(c)' = Some(0)
                /\ dbIndex' # Null)]_vars


\* C26: after a failed fetch with a cache present the client's roster and
\* cursor are the pair its most recent successful fetch stored, and the
\* error is set; with no cache they are left as they were.
C26_CacheFallback ==
  [][\A c \in Clients :
       \A call \in fetchEnded(c) :
         (variant \in {"cloud", "cloud0"} /\ ~call.resp.ok)
           => /\ error'[c] = "fetch"
              /\ cache'[c] = cache[c]
              /\ IF cache[c] # Null
                 THEN /\ candidates'[c] = Val(cache[c]).candidates
                      /\ currentIndex'[c] = Val(cache[c]).currentIndex
                 ELSE /\ candidates'[c] = candidates[c]
                      /\ currentIndex'[c] = currentIndex[c]]_vars

\* C26 witness: a client that had assigned shows the error of a failed
\* fetch and holds the cached pair again: the cursor of its cache, not the
\* one its assignment had moved to.
C26_Witness ==
  \E c \in Clients :
    /\ variant \in {"cloud", "cloud0"}
    /\ error[c] = "fetch" /\ cache[c] # Null
    /\ candidates[c] = Val(cache[c]).candidates
    /\ currentIndex[c] = Val(cache[c]).currentIndex
    /\ historyIndex[c] # Null /\ selectedResults[c] # << >>
    /\ currentIndex[c] # (Val(historyIndex[c]) + Len(selectedResults[c]))
                            % Len(candidates[c])


\* The cursor a read of the store returns: 0 while no cursor row exists
\* (App.tsx:440-447).
persisted(row) == IF row = Null THEN 0 ELSE Val(row)

\* The step in which the page of client c is reloaded, and the one in which
\* the component mounts.
reloadStep(c) == mounted[c] /\ ~mounted'[c]
mountStep(c) == ~mounted[c] /\ mounted'[c]

\* C27: the cursor survives a restart of the client.  A reload changes
\* neither the stored cursor nor the client's localStorage; the component
\* mounts without an undo point and without a result; in the local build
\* the stored pair always carries the displayed cursor and is what the mount
\* displays again; in the cloud builds each successful fetch displays the
\* cursor read from the store.
C27_CursorSurvivesRestart ==
  [][\A c \in Clients :
       /\ reloadStep(c) => (dbIndex' = dbIndex /\ cache'[c] = cache[c])
       /\ mountStep(c) => (historyIndex'[c] = Null /\ selectedResults'[c] = << >>)
       /\ (variant = "local" /\ mounted'[c] /\ Len(candidates'[c]) > 0)
            => cache'[c] = Some([candidates |-> candidates'[c],
                                 currentIndex |-> currentIndex'[c]])
       /\ (variant = "local" /\ mountStep(c) /\ cache[c] # Null)
            => currentIndex'[c] = Val(cache[c]).currentIndex
       /\ \A call \in fetchEnded(c) :
            (variant \in {"cloud", "cloud0"} /\ call.resp.ok)
              => currentIndex'[c] = persisted(call.resp.row)]_vars

\* C27 witness: the local client assigned, reloaded its page and mounted
\* again: it displays the cursor the assignment left and has no undo point.
C27_Witness ==
  \E c \in Clients :
    /\ variant = "local"
    /\ ops = 2 /\ uploads = 0
    /\ mounted[c]
    /\ currentIndex[c] # 0
    /\ historyIndex[c] = Null /\ selectedResults[c] = << >>


\* The assign and the undo of client c as steps of the local build: a press
\* of the assign button, the walk of which may throw on a cursor that is no
\* position of the roster, and a press of the undo button.
selectStep_local(c) == clickSelect_local(c)
undoStep_local(c) == clickUndo_local(c)

\* C28: undo is single-level.  Every assign records the cursor it started
\* from as the one undo point, replacing an older one; an undo restores
\* that cursor and leaves no undo point, so that a further undo has nothing
\* to restore.
C28_SingleLevelUndo ==
  [][\A c \in Clients :
       /\ (selectStep(c) \/ selectStep_local(c))
            => historyIndex'[c] = Some(currentIndex[c])
       /\ (undoStep(c) \/ undoStep_local(c))
            => /\ historyIndex[c] # Null
               /\ currentIndex'[c] = Val(historyIndex[c])
               /\ historyIndex'[c] = Null]_vars

\* C28 witness: the local client assigned twice and undid once: no undo
\* point is left and the cursor is the one of before the second assign, not
\* the 0 of before the first.
C28_Witness ==
  \E c \in Clients :
    /\ variant = "local"
    /\ ops = 3 /\ uploads = 0
    /\ mounted[c]
    /\ historyIndex[c] = Null /\ selectedResults[c] = << >>
    /\ currentIndex[c] # 0


\* C29: when the cursor write of an undo fails, the client is left as it was
\* before the undo: the result is still pending, so that the undo can be
\* retried, the local cursor is not reverted, and the error is set.  In the
\* cloud builds the failed write of an undo is the one that completes while
\* the client holds no undo point.
C29_FailedUndoKeepsResult ==
  [][\A c \in Clients :
       /\ \A call \in calls[c] \ calls'[c] :
            (call.op = "undo" /\ ~call.ok)
              => /\ result'[c] = result[c]
                 /\ config'[c] = config[c]
                 /\ error'[c] # NoError
       /\ (syncFailed(c) /\ historyIndex[c] = Null /\ mounted'[c])
            => /\ historyIndex'[c] # Null
               /\ selectedResults'[c] # << >>
               /\ error'[c] # NoError]_vars

\* The cursor writes a step of client c sends: the update of an assign or of
\* an undo.
sentWrites(c) ==
  {call \in calls'[c] \ calls[c] : call.op \in {"assign", "undo", "sync"}}

\* C30: a client whose most recent fetch failed, whose error is the one of the
\* fetch, sends no write of the shared cursor: assign stays blocked until a
\* fetch succeeds and clears the error.
C30_FetchErrorBlocksWrite ==
  [][\A c \in Clients :
       error[c] = "fetch" => sentWrites(c) = {}]_vars


\* A step in which client c imports a file that holds no valid name: in the
\* cloud builds the file is chosen (handleExcelUpload) and then read
\* (reader.onload), and so it is in the local build (handleFileChange).
emptyRead(c) ==
  \/ /\ reader_onload(c)
     /\ \E call \in calls[c] \ calls'[c] :
          call.op = "upload" /\ call.stage = "read" /\ call.names = << >>
  \/ /\ reader_onload_local(c)
     /\ \E call \in calls[c] \ calls'[c] : call.op = "file" /\ call.names = << >>

emptyImport(c) ==
  \/ handleExcelUpload(c, << >>)
  \/ handleFileChange(c, << >>)
  \/ emptyRead(c)

\* C31: a roster import that yields no valid name is rejected before anything
\* is deleted: the stored roster, the shared cursor, the client's roster, its
\* cursor and its pending undo are unchanged, and an error is set.
C31_EmptyImportRejected ==
  [][\A c \in Clients :
       emptyImport(c)
         => /\ dbCandidates' = dbCandidates
            /\ dbIndex' = dbIndex
            /\ candidates'[c] = candidates[c]
            /\ currentIndex'[c] = currentIndex[c]
            /\ historyIndex'[c] = historyIndex[c]
            /\ selectedResults'[c] = selectedResults[c]
            /\ emptyRead(c) => error'[c] # NoError]_vars

\* C31 witness: a client of a cloud build that holds an undo point imported
\* a file without names, no call having failed: the error is the one of the
\* import, the table still holds its roster and the undo point is kept.
C31_Witness ==
  \E c \in Clients :
    /\ variant \in {"cloud", "cloud0"}
    /\ uploads = 1 /\ fails = 0
    /\ error[c] = "upload"
    /\ dbCandidates = <<"A", "B">>
    /\ candidates[c] = <<"A", "B">>
    /\ historyIndex[c] # Null /\ selectedResults[c] # << >>


\* The cursor writes of client c that have not completed.
writes(c) == {call \in calls[c] : call.op \in {"assign", "undo", "sync"}}

writesEnded(c) == writes(c) # {} /\ writes(c)' = {}

sameWalk(roster, s, count) ==
  LET w == walk(roster, s, count, << >>)
      r == computeAssign_state(roster, s, count)
  IN /\ ~w.thrown
     /\ w.results = r.assignedNames
     /\ w.nextIdx = r.endIndex

\* C33: for every non-empty roster, cursor s in range and count > 0, the walk
\* that advances the index by one modulo L per name and the closed form
\* (name (s + i) mod L, end (s + count) mod L) give the same names and the
\* same end cursor: for every count from the stored cursor, for what a
\* handleSelect leaves in the component and for every result handleAssign
\* displays.
C33_WalkEquivalence ==
  [][\A c \in Clients :
       /\ (mounted'[c] /\ Len(candidates'[c]) > 0 /\ dbIndex' # Null
             /\ Val(dbIndex') < Len(candidates'[c]))
            => \A count \in 1..MaxWalk : sameWalk(candidates'[c], Val(dbIndex'), count)
       /\ handleSelect_cloud_walk(c)
            => LET r == computeAssign_state(candidates[c], currentIndex[c],
                                            Len(selectedResults'[c]))
               IN /\ historyIndex'[c] = Some(currentIndex[c])
                  /\ selectedResults'[c] = r.assignedNames
                  /\ currentIndex'[c] = r.endIndex
       /\ (variant = "state" /\ result'[c] # Null)
            => LET r == Val(result'[c])
                   w == walk(candidates'[c], r.startIndex, Len(r.assignedNames), << >>)
               IN /\ w.results = r.assignedNames
                  /\ w.nextIdx = r.endIndex]_vars

\* C33 witness: five names walked from position 1 of a roster of three, ending
\* at 0 after wrapping twice.
C33_Witness ==
  \E c \in Clients :
    /\ variant = "cloud"
    /\ historyIndex[c] = Some(1)
    /\ selectedResults[c] = <<"B", "C", "A", "B", "C">>
    /\ currentIndex[c] = 0


\* The roster the step of client c loads from the default file: the
\* response of fetchDefaultFile arrived with a file that holds names
\* (processExcelData with resetIndex = false).  A reload of the page drops
\* the request instead.
autoLoaded(c) ==
  {call.data : call \in {k \in calls[c] \ calls'[c] :
                           mounted'[c] /\ k.op = "default" /\ k.ok /\ Len(k.data) > 0}}

\* The roster the step of client c loads from the file chosen in the file
\* input (processExcelData with resetIndex = true).
fileLoaded(c) ==
  {call.names : call \in {k \in calls[c] \ calls'[c] :
                            mounted'[c] /\ k.op = "file" /\ Len(k.names) > 0}}

\* C34: in the local build a roster loaded without a reset keeps the cursor
\* when it is below the length of the new roster and sets it to 0 otherwise,
\* and leaves the pending undo and the displayed results as they are; a
\* roster loaded from the file input sets the cursor to 0 and clears the
\* pending undo and the results.
C34_AutoLoadKeepsCursor ==
  [][\A c \in LocalClients :
       /\ \A names \in autoLoaded(c) :
            /\ candidates'[c] = names
            /\ currentIndex'[c] =
                 IF currentIndex[c] < Len(names) THEN currentIndex[c] ELSE 0
            /\ historyIndex'[c] = historyIndex[c]
            /\ selectedResults'[c] = selectedResults[c]
       /\ \A names \in fileLoaded(c) :
            reader_onload_local(c)
              => /\ candidates'[c] = names
                 /\ currentIndex'[c] = 0
                 /\ historyIndex'[c] = Null
                 /\ selectedResults'[c] = << >>]_vars

\* C34 witness: the default file arrived after the client had loaded a file
\* of three names and assigned twice: the cursor 2 is no position of the
\* roster of two and is 0 now, the undo point and the result are still there.
C34_Witness ==
  \E c \in LocalClients :
    /\ variant = "local"
    /\ candidates[c] = <<"A", "B">>
    /\ currentIndex[c] = 0
    /\ historyIndex[c] = Some(1)
    /\ selectedResults[c] = <<"Y">>

====
